---- MODULE Spec2Model ----
(***************************************************************************)
(* Model of the Orrery component (src/src/components/Orrery/Orrery.jsx):   *)
(* the simulation clock and its controls, the animation (driver) loop, the *)
(* asynchronous loaders that build the tracked bodies, and the guarded     *)
(* orbital-mechanics helpers.                                              *)
(*                                                                         *)
(* Numbers.  A JavaScript value is a record [k, v]: k = "num" is a finite  *)
(* number with fixed-point value v, "nan" is NaN, "inf" is +/-Infinity     *)
(* (v = 1 or -1), "undef" is undefined, "null" is null and "str" a         *)
(* non-numeric string.  Lengths are in hundredths of an AU, eccentricities *)
(* in thousandths, angles given in degrees are whole degrees and angles in *)
(* radians are in milliradians.                                            *)
(*                                                                         *)
(* Time.  A Julian Date or Modified Julian Date is a pair [day, ms]: whole *)
(* days and milliseconds into the day, 0 <= ms < MsPerDay.  Wall-clock     *)
(* times (frame timestamps, Date.now()) are in milliseconds.               *)
(***************************************************************************)
EXTENDS Integers, Sequences, FiniteSets, TLC

VARIABLES
    timeRef,    \* [JD, MJD, timeSpeedIndex, lastFrameTime]: the clock (timeRef.current)
    wall,       \* wall-clock milliseconds since the page's time origin
    mounted,    \* the mount effect has run
    rafPending, \* an animation frame is scheduled (animationIdRef)
    pc,         \* position of initScene: which load it is waiting for
    planets,    \* dataRef.current.planets
    neos,       \* dataRef.current.neos
    showers,    \* dataRef.current.showers
    ctl,        \* number of clock-control clicks so far
    dataset,    \* which data directory answers the fetches (0: none has resolved)
    torn,       \* the cleanup of the mount effect has run
    scene,      \* the children of sceneRef.current
    filterConditions, \* the filterConditions state of the component
    flt,        \* number of filter changes so far
    backendService,             \* the BackendService instance and its calls in flight
    collisionDetectionService,  \* the CollisionDetectionService instance and the timers
    alertSystem,                \* the state of the AlertSystem component
    dataService,                \* the DataService instance, the clock and its calls in flight
    lastOp      \* the handler that ran last, with its inputs and what it did

vars == <<timeRef, wall, mounted, rafPending, pc, planets, neos, showers, ctl, dataset,
          torn, scene, filterConditions, flt, backendService,
         collisionDetectionService, alertSystem, dataService, lastOp>>
\* the state of the orrery view, and that of the services and the alert panel
viewVars == <<timeRef, wall, mounted, rafPending, pc, planets, neos, showers, ctl, dataset,
              torn, scene, filterConditions, flt>>
serviceVars == <<backendService, collisionDetectionService, alertSystem, dataService>>

----------------------------------------------------------------------------
\* F(v), with v evaluated once (a LET whose definition is computed a single time)
With(v, F(_)) == CHOOSE r \in {F(x) : x \in {v}} : TRUE

----------------------------------------------------------------------------
(* JavaScript values and arithmetic *)

Num(n) == [k |-> "num", v |-> n]
NaN == [k |-> "nan", v |-> 0]
PosInf == [k |-> "inf", v |-> 1]
NegInf == [k |-> "inf", v |-> -1]
Undefined == [k |-> "undef", v |-> 0]
Null == [k |-> "null", v |-> 0]
Str == [k |-> "str", v |-> 0]
\* true and false, and a property that the object does not have
Bool(b) == [k |-> "bool", v |-> IF b THEN 1 ELSE 0]
Absent == [k |-> "absent", v |-> 0]

\* typeof x === 'number'
IsNumberType(x) == x.k \in {"num", "nan", "inf"}

\* ToNumber: undefined and a non-numeric string become NaN, null becomes 0
ToNumber(x) ==
    CASE x.k \in {"undef", "str"} -> NaN
      [] x.k = "null" -> Num(0)
      [] OTHER -> x

\* the globals isNaN(x) and isFinite(x), which coerce with ToNumber
isNaN(x) == ToNumber(x).k = "nan"
isFinite(x) == ToNumber(x).k = "num"

\* !x for the values of the model
Falsy(x) == x.k \in {"undef", "null", "nan"} \/ (x.k = "num" /\ x.v = 0)

Sgn(n) == IF n > 0 THEN 1 ELSE IF n < 0 THEN -1 ELSE 0

\* the operators on numbers (after ToNumber), then on any value
NegNumber(x) ==
    CASE x.k = "nan" -> NaN
      [] x.k = "inf" -> [k |-> "inf", v |-> -(x.v)]
      [] OTHER -> Num(-(x.v))

AddNumbers(x, y) ==
    CASE x.k = "nan" \/ y.k = "nan" -> NaN
      [] x.k = "inf" /\ y.k = "inf" -> IF x.v = y.v THEN x ELSE NaN
      [] x.k = "inf" -> x
      [] y.k = "inf" -> y
      [] OTHER -> Num(x.v + y.v)

MulNumbers(x, y) ==
    CASE x.k = "nan" \/ y.k = "nan" -> NaN
      [] x.k = "inf" \/ y.k = "inf" ->
            IF Sgn(x.v) * Sgn(y.v) = 0 THEN NaN
            ELSE [k |-> "inf", v |-> Sgn(x.v) * Sgn(y.v)]
      [] OTHER -> Num(x.v * y.v)

\* a finite quotient is rounded down to the fixed-point grid
DivNumbers(x, y) ==
    CASE x.k = "nan" \/ y.k = "nan" -> NaN
      [] x.k = "inf" /\ y.k = "inf" -> NaN
      [] x.k = "inf" -> [k |-> "inf", v |-> IF y.v < 0 THEN -(x.v) ELSE x.v]
      [] y.k = "inf" -> Num(0)
      [] y.v = 0 -> IF x.v = 0 THEN NaN ELSE [k |-> "inf", v |-> Sgn(x.v)]
      [] OTHER -> Num(x.v \div y.v)

\* false as soon as one side is NaN
LessNumbers(x, y) ==
    CASE x.k = "nan" \/ y.k = "nan" -> FALSE
      [] x.k = "inf" /\ y.k = "inf" -> x.v < y.v
      [] x.k = "inf" -> x.v < 0
      [] y.k = "inf" -> y.v > 0
      [] OTHER -> x.v < y.v

\* -x, x + y, x - y, x * y, x / y, x < y, x <= y, x >= y
JsNeg(x) == NegNumber(ToNumber(x))
JsAdd(x, y) == AddNumbers(ToNumber(x), ToNumber(y))
JsSub(x, y) == JsAdd(x, JsNeg(y))
JsMul(x, y) == MulNumbers(ToNumber(x), ToNumber(y))
JsDiv(x, y) == DivNumbers(ToNumber(x), ToNumber(y))
JsLt(x, y) == LessNumbers(ToNumber(x), ToNumber(y))
JsLe(x, y) == JsLt(x, y) \/ (ToNumber(x).k # "nan" /\ ToNumber(x) = ToNumber(y))
JsGe(x, y) == JsLe(y, x)

----------------------------------------------------------------------------
(* Time *)

MsPerDay == 86400000
HalfDayMs == 43200000

Time(d, m) == [day |-> d, ms |-> m]

\* t + d milliseconds, carried into the day count
AddMs(t, d) ==
    Time(t.day + ((t.ms + d) \div MsPerDay), (t.ms + d) % MsPerDay)

\* (Date.now() / 86400000) + 2440587.5, for Date.now() = now.day days + now.ms ms
UnixEpochJDDay == 2440587
JDOfUnix(now) == AddMs(Time(now.day + UnixEpochJDDay, now.ms), HalfDayMs)

\* TimeUtils.js: MJD = JD - 2400000.5
MJDOffsetDay == 2400000
JDToMJD(jd) == AddMs(Time(jd.day - MJDOffsetDay, jd.ms), -HalfDayMs)

\* Date.now() at the page's time origin, and at wall-clock time w after it
OriginDay == 20761
OriginMs == 86399990
DateNow(w) == AddMs(Time(OriginDay, OriginMs), w)

\* variant: the table has a paused entry between the backward and forward speeds
TIMESPEEDSWithPause == << -31536000, -2592000, -604800, -86400, -3600, -60, -1,
                          0, 60, 3600, 86400, 604800, 2592000, 31536000 >>

\* TIMESPEEDS, in simulated seconds per real second (days per second * 86400)
TIMESPEEDS == << -31536000, -2592000, -604800, -86400, -3600, -60, -1,
                 1, 60, 3600, 86400, 604800, 2592000, 31536000 >>

----------------------------------------------------------------------------
(* Angles *)

\* DEG_TO_RAD = Math.PI / 180, in microradians per degree
DEG_TO_RAD == 17453

\* x *= DEG_TO_RAD: whole degrees to milliradians, rounded to the nearest
TimesDegToRad(x) ==
    With(JsMul(x, Num(DEG_TO_RAD)), LAMBDA p :
        IF p.k = "num" THEN Num((p.v + 500) \div 1000) ELSE p)

\* the quarter turn nearest to an angle of m milliradians (pi/2 = 1570.8 mrad)
QuarterTurn(m) == ((m * 10 + 7854) \div 15708) % 4

\* Math.cos and Math.sin, exact on the quarter turns and taken at the nearest
\* quarter turn elsewhere; NaN for a non-finite argument
MathCos(x0) ==
    LET x == ToNumber(x0)
    IN  IF x.k # "num" THEN NaN
        ELSE Num(<<1, 0, -1, 0>>[QuarterTurn(x.v) + 1])

MathSin(x0) ==
    LET x == ToNumber(x0)
    IN  IF x.k # "num" THEN NaN
        ELSE Num(<<0, 1, 0, -1>>[QuarterTurn(x.v) + 1])

\* the angle of quarter turn q, in milliradians
QuarterAngle(q) == <<0, 1571, 3142, 4712>>[(q % 4) + 1]

----------------------------------------------------------------------------
(* Orbital element records, transform matrices, positions *)

NoMatrix == [k |-> "undef", rows |-> <<>>]
Row(c1, c2, c3) == [k |-> "row", c |-> <<c1, c2, c3>>]
Matrix(r1, r2, r3) == [k |-> "array", rows |-> <<r1, r2, r3>>]

\* an orbitParams object of the data files, and an absent one
Params(a, e, inc, node, peri, ma, epoch) ==
    [k |-> "obj", a |-> a, e |-> e, inc |-> inc, node |-> node, peri |-> peri,
     ma |-> ma, epoch |-> epoch, transformMatrix |-> NoMatrix]
NoParams == [Params(Undefined, Undefined, Undefined, Undefined, Undefined,
                    Undefined, Undefined) EXCEPT !.k = "undef"]
\* the null that validateOrbitParams returns for a rejected record
Rejected == [NoParams EXCEPT !.k = "null"]

Vec(x, y, z) == [k |-> "vec", x |-> x, y |-> y, z |-> z]
Origin == Vec(Num(0), Num(0), Num(0))
Thrown == [k |-> "throw", x |-> Undefined, y |-> Undefined, z |-> Undefined]
NoVec == [k |-> "undef", x |-> Undefined, y |-> Undefined, z |-> Undefined]

\* validateOrbitParams(orbitParams)
requiredFields == <<"a", "e", "inc", "node", "peri">>

\* variant: only a negative semi-major axis is refused (a < 0 for a <= 0)
validateOrbitParamsZeroAxis(orbitParams) ==
    IF orbitParams.k # "obj" THEN Rejected
    ELSE IF \E i \in 1..Len(requiredFields) :
                \/ ~IsNumberType(orbitParams[requiredFields[i]])
                \/ isNaN(orbitParams[requiredFields[i]])
                \/ ~isFinite(orbitParams[requiredFields[i]])
         THEN Rejected
    ELSE IF JsLt(orbitParams.a, Num(0)) THEN Rejected
    ELSE IF JsGe(orbitParams.e, Num(1000)) THEN [orbitParams EXCEPT !.e = Num(999)]
    ELSE orbitParams

validateOrbitParams(orbitParams) ==
    IF orbitParams.k # "obj" THEN Rejected
    ELSE
    LET sanitized == orbitParams
        bad(field) == \/ ~IsNumberType(sanitized[field])
                      \/ isNaN(sanitized[field])
                      \/ ~isFinite(sanitized[field])
    IN  IF \E i \in 1..Len(requiredFields) : bad(requiredFields[i]) THEN Rejected
        ELSE IF JsLe(sanitized.a, Num(0)) THEN Rejected
        ELSE IF JsGe(sanitized.e, Num(1000))
             THEN [sanitized EXCEPT !.e = Num(999)]
             ELSE sanitized

\* A call of validateOrbitParams as it acts on the two objects involved: what it
\* returns, and the caller's record after the call.  Every write of the function
\* goes to sanitized (line 64); own says whether sanitized is an object of its
\* own or the caller's record itself.
validateOrbitParamsOn(orbitParams, own) ==
    With(validateOrbitParams(orbitParams), LAMBDA sanitized :
        [result |-> sanitized,
         orbitParams |-> IF own \/ sanitized.k # "obj" THEN orbitParams ELSE sanitized])
\* variant: const sanitized = orbitParams
validateOrbitParamsAliased(orbitParams) == validateOrbitParamsOn(orbitParams, FALSE)
\* const sanitized = { ...orbitParams }
validateOrbitParamsCall(orbitParams) == validateOrbitParamsOn(orbitParams, TRUE)

\* validatePosition(pos): the position, or NoVec for the null it returns
validatePosition(pos) ==
    IF pos.k # "vec" THEN NoVec
    ELSE IF \/ isNaN(pos.x) \/ isNaN(pos.y) \/ isNaN(pos.z)
            \/ ~isFinite(pos.x) \/ ~isFinite(pos.y) \/ ~isFinite(pos.z)
         THEN NoVec
         ELSE pos

\* the nine entries that ensureTransformMatrix computes
transformMatrixOf(cosNode, sinNode, cosPeri, sinPeri, cosInc, sinInc) ==
    Matrix(Row(JsSub(JsMul(cosPeri, cosNode), JsMul(JsMul(cosInc, sinPeri), sinNode)),
               JsSub(JsMul(JsNeg(cosNode), sinPeri), JsMul(JsMul(cosInc, cosPeri), sinNode)),
               JsMul(sinInc, sinNode)),
           Row(JsAdd(JsMul(cosPeri, sinNode), JsMul(JsMul(cosInc, cosNode), sinPeri)),
               JsAdd(JsMul(JsNeg(sinPeri), sinNode), JsMul(JsMul(cosInc, cosPeri), cosNode)),
               JsMul(JsNeg(sinInc), cosNode)),
           Row(JsMul(sinInc, sinPeri), JsMul(sinInc, cosPeri), cosInc))

\* variant: the matrix is computed on every call
buildsMatrixAlways(orbitParams) == TRUE

\* if (!orbitParams.transformMatrix): the call computes the nine entries
buildsMatrix(orbitParams) == orbitParams.transformMatrix.k = "undef"

\* ensureTransformMatrix(orbitParams): the record after the call; the value
\* returned is its transformMatrix
ensureTransformMatrix(orbitParams) ==
    IF buildsMatrix(orbitParams) THEN
        [orbitParams EXCEPT !.transformMatrix =
            transformMatrixOf(MathCos(orbitParams.node), MathSin(orbitParams.node),
                              MathCos(orbitParams.peri), MathSin(orbitParams.peri),
                              MathCos(orbitParams.inc), MathSin(orbitParams.inc))]
    ELSE orbitParams

----------------------------------------------------------------------------
(* utils/orbits.js: the orbital mechanics the component imports *)

\* sixteenths of a day for a quarter of the orbital period, by Kepler's third
\* law: P = 365.25 days * a^1.5 with a in AU (a is given in hundredths)
SixteenthMs == 5400000
ISqrt(n) == CHOOSE r \in 0..n : r * r <= n /\ n < (r + 1) * (r + 1)
QuarterPeriod16(a) == (1461 * a * ISqrt(a)) \div 1000

\* JulianDateToTrueAnomaly(orbitParams, t): the mean anomaly advances from ma at
\* the epoch by one quarter turn per quarter period; the true anomaly is taken
\* at the quarter turn of the mean anomaly (where the two coincide for every
\* 0 <= e < 1).  sqrt(1 - e) and sqrt(1 + e) make it NaN outside -1 <= e <= 1,
\* and it is NaN at a time that is NaN.
JulianDateToTrueAnomaly(orbitParams, t) ==
    IF t.ms < 0 THEN NaN
    ELSE IF \/ ~isFinite(orbitParams.a) \/ ~isFinite(orbitParams.e)
       \/ ~isFinite(orbitParams.ma) \/ ~isFinite(orbitParams.epoch)
    THEN NaN
    ELSE IF ToNumber(orbitParams.e).v > 1000 \/ ToNumber(orbitParams.e).v < -1000 THEN NaN
    ELSE IF ToNumber(orbitParams.a).v <= 0 THEN NaN
    ELSE LET since16 == (t.day - ToNumber(orbitParams.epoch).v) * 16 + (t.ms \div SixteenthMs)
             q16 == QuarterPeriod16(ToNumber(orbitParams.a).v)
             turns == IF q16 = 0 THEN 0 ELSE since16 \div q16
         IN  Num(QuarterAngle(QuarterTurn(ToNumber(orbitParams.ma).v) + turns))

\* the point (xp, yp, 0) of the orbit plane, rotated by the matrix with rows m
rotated(m, xp, yp) ==
    Vec(JsAdd(JsMul(m[1].c[1], xp), JsMul(m[1].c[2], yp)),
        JsAdd(JsMul(m[2].c[1], xp), JsMul(m[2].c[2], yp)),
        JsAdd(JsMul(m[3].c[1], xp), JsMul(m[3].c[2], yp)))

\* getOrbitPosition(a, e, trueAnomaly, transformMatrix):
\* r = a (1 - e^2) / (1 + e cos(nu)), rotated from the orbit plane by the matrix.
\* Indexing a row that is not an array throws.
getOrbitPosition(a, e, trueAnomaly, transformMatrix) ==
    IF \E i \in 1..Len(transformMatrix.rows) : transformMatrix.rows[i].k # "row" THEN Thrown
    ELSE
    With(JsDiv(JsMul(a, JsSub(Num(1000000), JsMul(e, e))),
               JsMul(Num(1000), JsAdd(Num(1000), JsMul(e, MathCos(trueAnomaly))))), LAMBDA r :
        rotated(transformMatrix.rows, JsMul(r, MathCos(trueAnomaly)),
                JsMul(r, MathSin(trueAnomaly))))

\* createOrbit(orbitParams, color, points): the orbit line sampled over one
\* turn of true anomaly, and the transform matrix it stores on the record it was
\* given.  The model samples the quarter turns.
OrbitSamples == <<0, 1, 2, 3>>
NoOrbit == [k |-> "null", positions |-> <<>>, transformMatrix |-> NoMatrix]
createOrbit(orbitParams) ==
    With(ensureTransformMatrix(orbitParams), LAMBDA withTM :
        [k |-> "line",
         positions |-> [i \in 1..Len(OrbitSamples) |->
                            getOrbitPosition(withTM.a, withTM.e,
                                             Num(QuarterAngle(OrbitSamples[i])),
                                             withTM.transformMatrix)],
         transformMatrix |-> withTM.transformMatrix])

----------------------------------------------------------------------------
(* The guarded wrappers of Orrery.jsx *)

\* variant: the orbit line is returned without a look at its coordinates
createOrbitUnchecked(orbitParams) ==
    With(validateOrbitParams(orbitParams), LAMBDA validParams :
        IF validParams.k # "obj" THEN NoOrbit
        ELSE With(createOrbit(validParams), LAMBDA orbit :
                IF \E i \in 1..Len(orbit.positions) : orbit.positions[i].k = "throw"
                THEN NoOrbit
                ELSE orbit))

\* createOrbitSafe(orbitParams, color, points)
createOrbitSafe(orbitParams) ==
    With(validateOrbitParams(orbitParams), LAMBDA validParams :
        IF validParams.k # "obj" THEN NoOrbit
        ELSE With(createOrbit(validParams), LAMBDA orbit :
                LET badCoord(c) == isNaN(c) \/ ~isFinite(c)
                IN  IF \E i \in 1..Len(orbit.positions) :
                           \/ orbit.positions[i].k = "throw"
                           \/ badCoord(orbit.positions[i].x)
                           \/ badCoord(orbit.positions[i].y)
                           \/ badCoord(orbit.positions[i].z)
                    THEN NoOrbit
                    ELSE orbit))

\* variant: the computed position is returned without validatePosition
getOrbitPositionUnvalidated(a, e, trueAnomaly, transformMatrix) ==
    IF \/ isNaN(a) \/ isNaN(e) \/ isNaN(trueAnomaly)
       \/ ~isFinite(a) \/ ~isFinite(e) \/ ~isFinite(trueAnomaly)
    THEN Origin
    ELSE IF transformMatrix.k # "array" \/ Len(transformMatrix.rows) # 3 THEN Origin
    ELSE With(getOrbitPosition(a, e, trueAnomaly, transformMatrix), LAMBDA pos :
            IF pos.k = "throw" THEN Origin ELSE pos)

\* getOrbitPositionSafe(a, e, trueAnomaly, transformMatrix)
getOrbitPositionSafe(a, e, trueAnomaly, transformMatrix) ==
    IF \/ isNaN(a) \/ isNaN(e) \/ isNaN(trueAnomaly)
       \/ ~isFinite(a) \/ ~isFinite(e) \/ ~isFinite(trueAnomaly)
    THEN Origin
    ELSE IF transformMatrix.k # "array" \/ Len(transformMatrix.rows) # 3 THEN Origin
    ELSE With(getOrbitPosition(a, e, trueAnomaly, transformMatrix), LAMBDA pos :
            LET validPos == validatePosition(pos)
            IN  IF pos.k = "throw" THEN Origin
                ELSE IF validPos.k = "vec" THEN validPos ELSE Origin)

----------------------------------------------------------------------------
(* Bounds of the model *)

\* frames arrive until the wall clock reaches MaxWall ms, FrameGaps apart
MaxWall == 34
FrameGaps == {10, 17}
\* clock-control clicks in the full specification
MaxControls == 1
\* a click is handled this many ms after the last frame
ClickDelays == {0, 3}
\* solver calls that fail within one frame
MaxFailures == 1

----------------------------------------------------------------------------
(* Body and Shower, and the per-frame update of one body *)

\* class Body: name, data (orbitParams, renderParams, extraParams), orbitMesh
\* and bodyMesh.position
Body(name, data, orbitMesh, pos) ==
    [name |-> name, orbitParams |-> data.orbitParams, renderParams |-> data.renderParams,
     extraParams |-> data.extraParams, orbitMesh |-> orbitMesh, pos |-> pos]

\* Body.setPosition / Shower.setPosition: the mesh position after the call
setPosition(old, pos) ==
    With(validatePosition(pos), LAMBDA validPos :
        IF validPos.k = "vec" THEN validPos ELSE old)

\* What a call of the imported anomaly solver can do: return its value, return
\* a non-finite number, or throw.
SolverOutcomes == {"ok", "nan", "throw"}
ThrownNumber == [k |-> "throw", v |-> 0]
Anomaly(orbitParams, t, outcome) ==
    CASE outcome = "throw" -> ThrownNumber
      [] outcome = "nan" -> NaN
      [] OTHER -> JulianDateToTrueAnomaly(orbitParams, t)

\* variant: a body whose anomaly cannot be computed is put at the origin
updatePositionResetting(orbitParams, pos, t, outcome) ==
    With(Anomaly(orbitParams, t, outcome), LAMBDA trueAnomaly :
        IF trueAnomaly.k # "num" THEN [orbitParams |-> orbitParams, pos |-> Origin,
                                       built |-> FALSE]
        ELSE With(ensureTransformMatrix(orbitParams), LAMBDA withTM :
                [orbitParams |-> withTM, built |-> buildsMatrix(orbitParams),
                 pos |-> setPosition(pos, getOrbitPositionSafe(withTM.a, withTM.e, trueAnomaly,
                                                               withTM.transformMatrix))]))

\* The body of the forEach callbacks of animate: orbitParams and position of a
\* body after its update at time t, and whether the call of ensureTransformMatrix
\* computed the matrix.
updatePosition(orbitParams, pos, t, outcome) ==
    With(Anomaly(orbitParams, t, outcome), LAMBDA trueAnomaly :
        IF trueAnomaly.k = "throw"
        THEN [orbitParams |-> orbitParams, pos |-> pos, built |-> FALSE]
        ELSE IF ~isFinite(trueAnomaly) \/ isNaN(trueAnomaly)
             THEN [orbitParams |-> orbitParams, pos |-> pos, built |-> FALSE]
        ELSE With(ensureTransformMatrix(orbitParams), LAMBDA withTM :
                LET newPos == getOrbitPositionSafe(withTM.a, withTM.e, trueAnomaly,
                                                   withTM.transformMatrix)
                IN  [orbitParams |-> withTM, pos |-> setPosition(pos, newPos),
                     built |-> buildsMatrix(orbitParams)]))

updateBody(body, t, outcome) ==
    With(updatePosition(body.orbitParams, body.pos, t, outcome), LAMBDA u :
        [body EXCEPT !.orbitParams = u.orbitParams, !.pos = u.pos])

\* class Shower; parentBodyMesh is null until a parent body is built, and then
\* orbitMeshes[0] is the parent's orbit, whose Body holds parentParams
NoMesh == NoVec
updateShower(shower, t, outcome) ==
    IF shower.parentBodyMesh.k # "vec" THEN shower
    ELSE With(updatePosition(shower.parentParams, shower.parentBodyMesh, t, outcome), LAMBDA u :
            [shower EXCEPT !.parentParams = u.orbitParams, !.parentBodyMesh = u.pos])

----------------------------------------------------------------------------
(* The animation loop: animate(time) *)

\* timeRef.current.lastFrameTime before the first effective frame (undefined)
NoFrameTime == -1
LastFrameOrZero(tr) == IF tr.lastFrameTime = NoFrameTime THEN 0 ELSE tr.lastFrameTime

\* 16.67 ms, in hundredths of a millisecond
FrameInterval == 1667

\* variant: a frame counts for at most 17 ms, whatever time has passed
frameDeltaCapped(tr, time) ==
    IF time - LastFrameOrZero(tr) >= 17 THEN 17 ELSE time - LastFrameOrZero(tr)
\* const deltaTime = time - (timeRef.current.lastFrameTime || 0)
frameDelta(tr, time) == time - LastFrameOrZero(tr)
\* variant: no frame is skipped
neverRateLimited(tr, time) == FALSE
\* if (deltaTime < 16.67) return
rateLimited(tr, time) == frameDelta(tr, time) * 100 < FrameInterval

\* variant: the clock runs at one simulated second per second whatever the speed
deltaJulianUnscaled(tr, time) == time - LastFrameOrZero(tr)
\* deltaTime * TIMESPEEDS[timeSpeedIndex] / 1000 days, in simulated ms:
\* (ms * (s/s * 1/86400 day/s) / 1000) * 86400000 ms/day
deltaJulian(tr, time) == frameDelta(tr, time) * TIMESPEEDS[tr.timeSpeedIndex + 1]

\* TIMESPEEDS[timeSpeedIndex]: undefined for an index outside the table
TimeSpeed(index) ==
    IF index + 1 \in DOMAIN TIMESPEEDS THEN Num(TIMESPEEDS[index + 1]) ELSE Undefined

\* variant: the time delta is never looked at
invalidTimeDeltaIgnored(tr, time) == FALSE
\* !isFinite(deltaJulian) || isNaN(deltaJulian), for
\* deltaJulian = deltaTime * TIMESPEEDS[timeSpeedIndex] / 1000
invalidTimeDelta(tr, time) ==
    With(JsDiv(JsMul(Num(frameDelta(tr, time)), TimeSpeed(tr.timeSpeedIndex)), Num(1000)),
         LAMBDA deltaJulianValue : ~isFinite(deltaJulianValue) \/ isNaN(deltaJulianValue))

\* NaN as a clock value, and a clock value plus a time delta that may be NaN
NaNTime == Time(0, -1)
AddDelta(t, valid, d) == IF valid /\ t # NaNTime THEN AddMs(t, d) ELSE NaNTime

\* the clock after an effective frame: JD += deltaJulian, MJD += deltaJulian
advanceClock(tr, time) ==
    With(TimeSpeed(tr.timeSpeedIndex).k = "num", LAMBDA valid :
        [tr EXCEPT !.lastFrameTime = time,
                   !.JD = AddDelta(@, valid, IF valid THEN deltaJulian(tr, time) ELSE 0),
                   !.MJD = AddDelta(@, valid, IF valid THEN deltaJulian(tr, time) ELSE 0)])

\* variant: one try/catch around the whole loop, so that a throw ends it
updateBodiesAborting(bodies, t, out, off) ==
    [i \in 1..Len(bodies) |->
        IF \E j \in 1..(i - 1) : out[off + j] = "throw" THEN bodies[i]
        ELSE updateBody(bodies[i], t, out[off + i])]

\* dataRef.current.planets.forEach(...), each callback in its own try/catch;
\* out[off + i] is the outcome of the solver call made for the i-th body
updateBodies(bodies, t, out, off) ==
    [i \in 1..Len(bodies) |-> updateBody(bodies[i], t, out[off + i])]

\* the index of the planet named 'Earth' (planets.find), 0 if there is none
EarthIndex(pl) ==
    IF \E i \in 1..Len(pl) : pl[i].name = "Earth"
    THEN CHOOSE i \in 1..Len(pl) : pl[i].name = "Earth" /\ \A j \in 1..(i - 1) : pl[j].name # "Earth"
    ELSE 0

\* the shower section: nothing moves unless Earth is tracked and its true anomaly
\* at JD is finite (the same call, with the same outcome, as in the planet loop)
updateShowers(sh, pl, t, out, off) ==
    With(EarthIndex(pl), LAMBDA ei :
        IF ei = 0 THEN sh
        ELSE With(Anomaly(pl[ei].orbitParams, t, out[ei]), LAMBDA earthTrueAnomaly :
                IF earthTrueAnomaly.k = "throw" THEN sh
                ELSE IF ~(isFinite(earthTrueAnomaly) /\ ~isNaN(earthTrueAnomaly)) THEN sh
                ELSE [i \in 1..Len(sh) |-> updateShower(sh[i], t, out[off + i])]))

\* the callbacks of one forEach loop in which ensureTransformMatrix computed the
\* matrix, by their place among the solver calls of the frame
builtBodies(bodies, t, out, off) ==
    {off + i : i \in {j \in 1..Len(bodies) :
        updatePosition(bodies[j].orbitParams, bodies[j].pos, t, out[off + j]).built}}

\* the same for the parent bodies moved by the shower section
builtShowers(sh, pl, t, out, off) ==
    With(EarthIndex(pl), LAMBDA ei :
        IF ei = 0 THEN {}
        ELSE With(Anomaly(pl[ei].orbitParams, t, out[ei]), LAMBDA earthTrueAnomaly :
                IF earthTrueAnomaly.k = "throw" THEN {}
                ELSE IF ~(isFinite(earthTrueAnomaly) /\ ~isNaN(earthTrueAnomaly)) THEN {}
                ELSE {off + i : i \in {j \in 1..Len(sh) :
                        /\ sh[j].parentBodyMesh.k = "vec"
                        /\ updatePosition(sh[j].parentParams, sh[j].parentBodyMesh, t,
                                          out[off + j]).built}}))

\* variant: the NEOs are moved before the clock is advanced
animateTorn(tr, pl, ne, sh, time, out) ==
    IF rateLimited(tr, time)
    THEN [timeRef |-> tr, planets |-> pl, neos |-> ne, showers |-> sh,
          effective |-> FALSE, tJD |-> tr.JD, tMJD |-> tr.MJD, built |-> {}]
    ELSE IF invalidTimeDelta(tr, time)
    THEN [timeRef |-> [tr EXCEPT !.lastFrameTime = time],
          planets |-> pl, neos |-> ne, showers |-> sh,
          effective |-> FALSE, tJD |-> tr.JD, tMJD |-> tr.MJD, built |-> {}]
    ELSE With(advanceClock(tr, time), LAMBDA tr2 :
         With(updateBodies(pl, tr2.JD, out, 0), LAMBDA pl2 :
            [timeRef |-> tr2, planets |-> pl2,
             neos |-> updateBodies(ne, tr.MJD, out, Len(pl)),
             showers |-> updateShowers(sh, pl2, tr2.JD, out, Len(pl) + Len(ne)),
             effective |-> TRUE, tJD |-> tr2.JD, tMJD |-> tr.MJD,
             built |-> builtBodies(pl, tr2.JD, out, 0)
                        \cup builtBodies(ne, tr.MJD, out, Len(pl))
                        \cup builtShowers(sh, pl2, tr2.JD, out, Len(pl) + Len(ne))]))

\* animate(time): the clock and the tracked lists after the frame, and the time
\* values handed to the solver for the planets/showers (tJD) and the NEOs (tMJD),
\* and the solver calls after which a transform matrix was computed (built).
\* A frame whose time delta is not a finite number ends after lastFrameTime is
\* written.
animate(tr, pl, ne, sh, time, out) ==
    IF rateLimited(tr, time)
    THEN [timeRef |-> tr, planets |-> pl, neos |-> ne, showers |-> sh,
          effective |-> FALSE, tJD |-> tr.JD, tMJD |-> tr.MJD, built |-> {}]
    ELSE IF invalidTimeDelta(tr, time)
    THEN [timeRef |-> [tr EXCEPT !.lastFrameTime = time],
          planets |-> pl, neos |-> ne, showers |-> sh,
          effective |-> FALSE, tJD |-> tr.JD, tMJD |-> tr.MJD, built |-> {}]
    ELSE With(advanceClock(tr, time), LAMBDA tr2 :
         With(updateBodies(pl, tr2.JD, out, 0), LAMBDA pl2 :
            LET ne2 == updateBodies(ne, tr2.MJD, out, Len(pl))
                sh2 == updateShowers(sh, pl2, tr2.JD, out, Len(pl) + Len(ne))
            IN  [timeRef |-> tr2, planets |-> pl2, neos |-> ne2, showers |-> sh2,
                 effective |-> TRUE, tJD |-> tr2.JD, tMJD |-> tr2.MJD,
                 built |-> builtBodies(pl, tr2.JD, out, 0)
                            \cup builtBodies(ne, tr2.MJD, out, Len(pl))
                            \cup builtShowers(sh, pl2, tr2.JD, out, Len(pl) + Len(ne))]))

----------------------------------------------------------------------------
(* The clock controls: handleTimeControl(action) *)

TimeActions == {"fastbackward", "backward", "now", "forward", "fastforward"}

\* variant: the fast buttons step the index without looking at the table ends
handleTimeControlUnclamped(tr, action, now) ==
    CASE action = "fastbackward" -> [tr EXCEPT !.timeSpeedIndex = @ - 1]
      [] action = "backward" -> [tr EXCEPT !.timeSpeedIndex = 6]
      [] action = "now" ->
            [tr EXCEPT !.timeSpeedIndex = 7,
                       !.JD = JDOfUnix(now),
                       !.MJD = JDToMJD(JDOfUnix(now))]
      [] action = "forward" -> [tr EXCEPT !.timeSpeedIndex = 7]
      [] action = "fastforward" -> [tr EXCEPT !.timeSpeedIndex = @ + 1]

\* variant: 'now' resets JD and the speed and leaves MJD where it was
handleTimeControlStaleMJD(tr, action, now) ==
    CASE action = "fastbackward" ->
            IF tr.timeSpeedIndex > 0 THEN [tr EXCEPT !.timeSpeedIndex = @ - 1] ELSE tr
      [] action = "backward" -> [tr EXCEPT !.timeSpeedIndex = 6]
      [] action = "now" -> [tr EXCEPT !.timeSpeedIndex = 7, !.JD = JDOfUnix(now)]
      [] action = "forward" -> [tr EXCEPT !.timeSpeedIndex = 7]
      [] action = "fastforward" ->
            IF tr.timeSpeedIndex < Len(TIMESPEEDS) - 1
            THEN [tr EXCEPT !.timeSpeedIndex = @ + 1] ELSE tr

\* variant: 'forward' and 'backward' step the index by one and 'forward' also
\* takes the clock to the wall time
handleTimeControlStepping(tr, action, now) ==
    CASE action = "fastbackward" ->
            IF tr.timeSpeedIndex > 0 THEN [tr EXCEPT !.timeSpeedIndex = @ - 1] ELSE tr
      [] action = "backward" ->
            IF tr.timeSpeedIndex > 0 THEN [tr EXCEPT !.timeSpeedIndex = @ - 1] ELSE tr
      [] action = "now" ->
            [tr EXCEPT !.timeSpeedIndex = 7,
                       !.JD = JDOfUnix(now),
                       !.MJD = JDToMJD(JDOfUnix(now))]
      [] action = "forward" ->
            [tr EXCEPT !.timeSpeedIndex = 7,
                       !.JD = JDOfUnix(now),
                       !.MJD = JDToMJD(JDOfUnix(now))]
      [] action = "fastforward" ->
            IF tr.timeSpeedIndex < Len(TIMESPEEDS) - 1
            THEN [tr EXCEPT !.timeSpeedIndex = @ + 1] ELSE tr

\* now is Date.now() when the click is handled
handleTimeControl(tr, action, now) ==
    CASE action = "fastbackward" ->
            IF tr.timeSpeedIndex > 0 THEN [tr EXCEPT !.timeSpeedIndex = @ - 1] ELSE tr
      [] action = "backward" -> [tr EXCEPT !.timeSpeedIndex = 6]
      [] action = "now" ->
            [tr EXCEPT !.timeSpeedIndex = 7,
                       !.JD = JDOfUnix(now),
                       !.MJD = JDToMJD(JDOfUnix(now))]
      [] action = "forward" -> [tr EXCEPT !.timeSpeedIndex = 7]
      [] action = "fastforward" ->
            IF tr.timeSpeedIndex < Len(TIMESPEEDS) - 1
            THEN [tr EXCEPT !.timeSpeedIndex = @ + 1] ELSE tr

----------------------------------------------------------------------------
(* The scene and the type filters *)

\* A mesh of the scene: part 0 is the sphere of a tracked planet or NEO or of
\* the parent body of a shower, part i >= 1 the i-th orbit line of its owner.
Mesh(owner, name, part) == [owner |-> owner, name |-> name, part |-> part]
\* the light and the two groups the mount effect adds, and the sun of addSun
SceneFixtures == {Mesh("scene", "light", 0), Mesh("scene", "predictionGroup", 0),
                  Mesh("scene", "heatmapGroup", 0)}
addSun == Mesh("scene", "sun", 0)

\* planet.orbitMesh and planet.bodyMesh, neo.orbitMesh and neo.bodyMesh
MeshesOfBody(owner, body) == {Mesh(owner, body.name, 1), Mesh(owner, body.name, 0)}
\* shower.orbitMeshes and, when it is not null, shower.parentBodyMesh
MeshesOfShower(shower) ==
    {Mesh("showers", shower.code, i) : i \in 1..Len(shower.orbitMeshes)}
        \cup (IF shower.parentBodyMesh.k = "vec" THEN {Mesh("showers", shower.code, 0)}
              ELSE {})

\* new FilterConditions(): a in hundredths of an AU, e in thousandths, 'PS max'
\* and riskThreshold in hundredths
ShownTypeNames == {"Planet", "Dwarf planet", "NEO", "Shower", "Sporadic"}
FilterConditions ==
    [riskRange |-> <<Num(-9900), Num(9900)>>,
     sizeRange |-> <<Num(0), Num(9999)>>,
     aRange |-> <<Num(0), Num(10000)>>,
     eRange |-> <<Num(0), Num(1000)>>,
     shownTypes |-> [type \in ShownTypeNames |-> type # "Sporadic"],
     collisionDetectionActive |-> FALSE,
     riskThreshold |-> -200]

\* x < range[0] || x > range[1]
OutOfRange(x, range) == JsLt(x, range[1]) \/ JsLt(range[2], x)

\* FilterConditions.checkPassesFilters(object)
checkPassesFilters(conditions, object) ==
    IF /\ object.renderParams.k = "obj"
       /\ object.renderParams.is_dwarf.k # "absent"
       /\ object.renderParams.is_dwarf = Bool(TRUE)
    THEN conditions.shownTypes["Dwarf planet"]
    ELSE IF object.renderParams.k = "obj" /\ object.renderParams.is_dwarf.k # "absent"
    THEN conditions.shownTypes["Planet"]
    ELSE IF /\ object.extraParams.k = "obj"
            /\ object.extraParams.PSmax.k # "undef"
            /\ \/ OutOfRange(object.extraParams.PSmax, conditions.riskRange)
               \/ OutOfRange(object.extraParams.diameter, conditions.sizeRange)
               \/ OutOfRange(object.orbitParams.a, conditions.aRange)
               \/ OutOfRange(object.orbitParams.e, conditions.eRange)
    THEN FALSE
    ELSE conditions.shownTypes["NEO"]

\* updateOrbits(filterConditions): the children of the scene after the call
updateOrbits(sc, pl, ne, sh, conditions) ==
    LET removed ==
            UNION ({MeshesOfBody("planets", pl[i]) : i \in 1..Len(pl)}
                   \cup {MeshesOfBody("neos", ne[i]) : i \in 1..Len(ne)}
                   \cup {MeshesOfShower(sh[i]) : i \in 1..Len(sh)})
        added ==
            UNION ({MeshesOfBody("planets", pl[i]) :
                        i \in {j \in 1..Len(pl) : checkPassesFilters(conditions, pl[j])}}
                   \cup {MeshesOfBody("neos", ne[i]) :
                        i \in {j \in 1..Len(ne) : checkPassesFilters(conditions, ne[j])}}
                   \cup {MeshesOfShower(sh[i]) :
                        i \in {j \in 1..Len(sh) : conditions.shownTypes["Shower"]}})
    IN  (sc \ removed) \cup added

\* variant: the new FilterConditions keeps its default shownTypes
handleFilterChangeReset(conditions, type, value) ==
    [FilterConditions EXCEPT !.shownTypes[type] = value]
\* handleFilterChange(type, value): the new filterConditions
handleFilterChange(conditions, type, value) ==
    [FilterConditions EXCEPT !.shownTypes = [conditions.shownTypes EXCEPT ![type] = value],
                             !.collisionDetectionActive = conditions.collisionDetectionActive,
                             !.riskThreshold = conditions.riskThreshold]

\* handleCollisionDetectionToggle(active): the new filterConditions, conditions
\* being the filterConditions of the render the function was created in
handleCollisionDetectionToggle(conditions, active) ==
    [FilterConditions EXCEPT !.shownTypes = conditions.shownTypes,
                             !.collisionDetectionActive = active,
                             !.riskThreshold = conditions.riskThreshold]

\* handleRiskThresholdEvent(e), for e.detail.threshold = threshold
handleRiskThresholdEvent(conditions, threshold) ==
    [FilterConditions EXCEPT !.shownTypes = conditions.shownTypes,
                             !.collisionDetectionActive = conditions.collisionDetectionActive,
                             !.riskThreshold = threshold]

\* variant: the cleanup leaves the scheduled frame alone
cleanupKeepingFrame(pending) == pending
\* the cleanup of the mount effect: cancelAnimationFrame(animationIdRef.current)
cleanup(pending) == FALSE

\* filter changes in the specification of the view, and the wall-clock time up
\* to which it has frames
MaxFilterChanges == 2
MaxViewWall == 20

----------------------------------------------------------------------------
(* services/BackendService.js *)

\* operations that may be in flight at once on one instance
MaxRequests == 2
\* this.maxRetries
maxRetries == 3

\* a call of an operation: where it is (idle, awaiting its fetch, awaiting the
\* retry delay, done), the fetches it has made, and how it ended
NoCall == [op |-> "", pc |-> "idle", attempts |-> 0, result |-> "", failed |-> FALSE]
\* constructor()
BackendService ==
    [isConnected |-> FALSE, retryCount |-> 0, calls |-> [i \in 1..MaxRequests |-> NoCall]]


\* the operations that go through makeRequest, and the two that call fetch
RequestOps == {"predictCollisionRisk", "predictTrajectory", "batchPredictCollisionRisks",
               "getModelMetrics", "updateModel", "getRealTimeData"}
BackendOps == RequestOps \cup {"healthCheck", "initialize"}

\* makeRequest when its fetch has settled: a response that is ok resets
\* retryCount and is returned; otherwise the catch block retries after a delay
\* while retryCount < maxRetries, and else resets retryCount and throws
makeRequest(retryCount, ok) ==
    IF ok THEN [retryCount |-> 0, then |-> "return"]
    ELSE IF retryCount < maxRetries
         THEN [retryCount |-> retryCount + 1, then |-> "retry"]
         ELSE [retryCount |-> 0, then |-> "throw"]

\* the catch block of an operation whose makeRequest or fetch has thrown
catchOf(op) ==
    CASE op \in {"updateModel", "healthCheck"} -> "throw"
      [] op = "initialize" -> "false"
      [] OTHER -> "mock"

\* the instance and the call after the fetch of call c has settled; statusOk:
\* the health response says status 'ok'
fetchSettled(svc, c, ok, statusOk) ==
    IF c.op \in RequestOps
    THEN With(makeRequest(svc.retryCount, ok), LAMBDA r :
            [svc |-> [svc EXCEPT !.retryCount = r.retryCount],
             call |-> CASE r.then = "return" -> [c EXCEPT !.pc = "done", !.result = "response"]
                        [] r.then = "retry" -> [c EXCEPT !.pc = "delay"]
                        [] OTHER -> [c EXCEPT !.pc = "done", !.result = catchOf(c.op),
                                               !.failed = TRUE]])
    ELSE IF c.op = "healthCheck"
    THEN [svc |-> svc,
          call |-> IF ok THEN [c EXCEPT !.pc = "done", !.result = "response"]
                   ELSE [c EXCEPT !.pc = "done", !.result = catchOf(c.op), !.failed = TRUE]]
    ELSE [svc |-> [svc EXCEPT !.isConnected = ok /\ statusOk],
          call |-> IF ok THEN [c EXCEPT !.pc = "done",
                                        !.result = IF statusOk THEN "true" ELSE "false"]
                   ELSE [c EXCEPT !.pc = "done", !.result = catchOf(c.op), !.failed = TRUE]]

----------------------------------------------------------------------------
(* services/CollisionDetectionService.js *)

\* constructor(): updateInterval 0 is null; timers are the interval timers of
\* the page that have not been cleared, lastTimer the last id setInterval gave
\* out, updates the calls of performRealTimeUpdate so far
CollisionDetectionService ==
    [isRunning |-> FALSE, updateInterval |-> 0, timers |-> {}, lastTimer |-> 0, updates |-> 0]

\* variant: a start while running sets up another timer
startRealTimeDetectionUnguarded(svc, updateInterval) ==
    [svc EXCEPT !.isRunning = TRUE,
                !.updateInterval = svc.lastTimer + 1,
                !.timers = @ \cup {[id |-> svc.lastTimer + 1, every |-> updateInterval]},
                !.lastTimer = @ + 1]

\* startRealTimeDetection(updateInterval); setInterval returns a new id, which
\* is a positive integer
startRealTimeDetection(svc, updateInterval) ==
    IF svc.isRunning THEN svc
    ELSE [svc EXCEPT !.isRunning = TRUE,
                     !.updateInterval = svc.lastTimer + 1,
                     !.timers = @ \cup {[id |-> svc.lastTimer + 1, every |-> updateInterval]},
                     !.lastTimer = @ + 1]

\* stopRealTimeDetection(); clearInterval(id) ends the timer with that id
stopRealTimeDetection(svc) ==
    IF svc.updateInterval # 0
    THEN [svc EXCEPT !.timers = {t \in @ : t.id # svc.updateInterval},
                     !.updateInterval = 0,
                     !.isRunning = FALSE]
    ELSE [svc EXCEPT !.isRunning = FALSE]

----------------------------------------------------------------------------
(* components/CollisionDetection/AlertSystem.jsx *)

\* useState([]) and useState(0); created counts the alerts made so far
AlertSystem == [alerts |-> <<>>, isVisible |-> FALSE, unreadCount |-> 0, created |-> 0]

\* processRiskUpdate(riskData), for riskData with high predictions whose
\* riskCategory is 'High': the new alerts go to the front of the list
processRiskUpdate(a, high) ==
    IF high > 0
    THEN [alerts |-> [i \in 1..high |-> [id |-> a.created + i, isRead |-> FALSE]] \o a.alerts,
          isVisible |-> TRUE,
          unreadCount |-> a.unreadCount + high,
          created |-> a.created + high]
    ELSE a

\* markAsRead(alertId)
markAsRead(a, alertId) ==
    [a EXCEPT !.alerts = [i \in 1..Len(@) |->
                            IF @[i].id = alertId THEN [@[i] EXCEPT !.isRead = TRUE] ELSE @[i]],
              !.unreadCount = IF @ - 1 > 0 THEN @ - 1 ELSE 0]

\* markAllAsRead()
markAllAsRead(a) ==
    [a EXCEPT !.alerts = [i \in 1..Len(@) |-> [@[i] EXCEPT !.isRead = TRUE]],
              !.unreadCount = 0]

\* clearAlert(alertId)
clearAlert(a, alertId) ==
    [a EXCEPT !.alerts = SelectSeq(@, LAMBDA alert : alert.id # alertId)]

\* clearAllAlerts()
clearAllAlerts(a) == [a EXCEPT !.alerts = <<>>, !.unreadCount = 0]

\* handleAlertClick(alert)
handleAlertClick(a, alert) == markAsRead(a, alert.id)

----------------------------------------------------------------------------
(* services/DataService.js *)

\* this.cache.get(key) for a key that was never set
NoCached == [k |-> "undef", data |-> <<>>, timestamp |-> 0, ttl |-> 0]
\* the keys the service caches under
CacheKeys == {"neo_data"}
\* constructor(), with Date.now() in ms, the calls of fetchRealTimeNEOData
\* made so far, and the list the last successful fetch produced
DataService ==
    [cache |-> [key \in CacheKeys |-> NoCached], now |-> 0, calls |-> <<>>,
     produced |-> NoCached]

\* the time to live of a cache entry, in ms
ttl == 300000

\* cacheData(key, data)
cacheData(svc, key, data) ==
    [svc EXCEPT !.cache[key] = [k |-> "obj", data |-> data, timestamp |-> svc.now, ttl |-> ttl]]

\* getCachedData(key) without the test of the age
getCachedDataOfAnyAge(svc, key) ==
    With(svc.cache[key], LAMBDA cached :
        IF cached.k # "undef"
        THEN [k |-> "array", v |-> cached.data]
        ELSE [k |-> "null", v |-> <<>>])

\* getCachedData(key)
getCachedData(svc, key) ==
    With(svc.cache[key], LAMBDA cached :
        IF cached.k # "undef" /\ svc.now - cached.timestamp < cached.ttl
        THEN [k |-> "array", v |-> cached.data]
        ELSE [k |-> "null", v |-> <<>>])

\* the entries of rawData.near_earth_objects, date after date
RECURSIVE FlattenDays(_)
FlattenDays(days) ==
    IF days = <<>> THEN <<>> ELSE Head(days) \o FlattenDays(Tail(days))

\* processNEOData(rawData): the standardized list, cached before it is
\* returned; a feed whose entries cannot be iterated raises before the cache
\* is written
processNEOData(svc, rawData) ==
    IF rawData.k = "malformed"
    THEN [svc |-> svc, then |-> "throw", value |-> <<>>]
    ELSE With(IF rawData.k = "feed"
              THEN [i \in 1..Len(FlattenDays(rawData.days)) |->
                      [id |-> FlattenDays(rawData.days)[i].id]]
              ELSE <<>>,
              LAMBDA processedData :
                  [svc |-> cacheData(svc, "neo_data", processedData),
                   then |-> "return", value |-> processedData])

\* a || b, for a an array or null
OrElse(a, b) == IF a.k = "null" THEN b ELSE a.v

\* fetchRealTimeNEOData() from the settlement of its fetch on: response is
\* the outcome of fetch(url) and of response.json()
fetchRealTimeNEOData(svc, response) ==
    With(IF response.k = "data"
         THEN processNEOData(svc, response.data)
         ELSE [svc |-> svc, then |-> "throw", value |-> <<>>],
         LAMBDA tried :
             IF tried.then = "throw"
             THEN [svc |-> svc, then |-> "return",
                   value |-> OrElse(getCachedData(svc, "neo_data"), <<>>)]
             ELSE tried)

----------------------------------------------------------------------------
(* The state machine *)

NoOutcome == <<>>
Op(op, time, action, now, out) ==
    [op |-> op, time |-> time, action |-> action, now |-> now, out |-> out]
\* a frame, with the solver calls after which a transform matrix was computed
FrameOp(time, out, built) ==
    [op |-> "animate", time |-> time, action |-> "", now |-> Time(0, 0), out |-> out,
     built |-> built]

Init ==
    /\ timeRef = [JD |-> JDOfUnix(DateNow(0)), MJD |-> Time(0, 0),
                  timeSpeedIndex |-> 10, lastFrameTime |-> NoFrameTime]
    /\ wall = 0
    /\ mounted = FALSE
    /\ rafPending = FALSE
    /\ pc = "unmounted"
    /\ planets = <<>>
    /\ neos = <<>>
    /\ showers = <<>>
    /\ ctl = 0
    /\ dataset = 0
    /\ torn = FALSE
    /\ scene = {}
    /\ filterConditions = FilterConditions
    /\ flt = 0
    /\ backendService = BackendService
    /\ collisionDetectionService = CollisionDetectionService
    /\ alertSystem = AlertSystem
    /\ dataService = DataService
    /\ lastOp = Op("init", 0, "", Time(0, 0), NoOutcome)

\* useEffect(() => {...}, []): the scene gets its light and its two groups, MJD
\* is derived from JD, initScene adds the sun and waits for the planet data, and
\* animate(0) schedules the first frame
Mount ==
    /\ ~mounted
    /\ scene' = scene \cup SceneFixtures \cup {addSun}
    /\ mounted' = TRUE
    /\ pc' = "planets"
    /\ \E r \in {animate([timeRef EXCEPT !.MJD = JDToMJD(timeRef.JD)],
                         planets, neos, showers, 0, NoOutcome)} :
           /\ timeRef' = r.timeRef
           /\ planets' = r.planets
           /\ neos' = r.neos
           /\ showers' = r.showers
    /\ rafPending' = TRUE
    /\ lastOp' = Op("mount", 0, "", Time(0, 0), NoOutcome)
    /\ UNCHANGED <<wall, ctl, dataset, torn, filterConditions, flt>>
    /\ UNCHANGED serviceVars

\* the solver calls of one frame: none on a rate-limited frame, and at most
\* MaxFailures failing calls on an effective one
Outcomes(time) ==
    LET n == Len(planets) + Len(neos) + Len(showers)
    IN  IF rateLimited(timeRef, time) THEN {[i \in 1..n |-> "ok"]}
        ELSE {out \in [1..n -> SolverOutcomes] :
                Cardinality({i \in 1..n : out[i] # "ok"}) <= MaxFailures}

\* the browser runs the scheduled frame callback d ms after the previous one
Frame(d) ==
    /\ mounted
    /\ rafPending
    /\ wall + d <= MaxWall
    /\ wall' = wall + d
    /\ \E out \in Outcomes(wall + d) :
        \E r \in {animate(timeRef, planets, neos, showers, wall + d, out)} :
            /\ timeRef' = r.timeRef
            /\ planets' = r.planets
            /\ neos' = r.neos
            /\ showers' = r.showers
            /\ lastOp' = FrameOp(wall + d, out, r.built)
    /\ rafPending' = TRUE
    /\ UNCHANGED <<mounted, pc, ctl, dataset, torn, scene, filterConditions, flt>>
    /\ UNCHANGED serviceVars

\* a click on one of the five time buttons
TimeControl(action, delay) ==
    /\ mounted
    /\ timeRef' = handleTimeControl(timeRef, action, DateNow(wall + delay))
    /\ lastOp' = Op("timeControl", 0, action, DateNow(wall + delay), NoOutcome)
    /\ UNCHANGED <<wall, mounted, rafPending, pc, planets, neos, showers, dataset,
                   torn, scene, filterConditions, flt>>
    /\ UNCHANGED serviceVars

----------------------------------------------------------------------------
(* The loaders: initializePlanets, initializeNeos, initializeShowers *)

\* variant: the argument of perihelion of the copy is left in degrees
processOrbitParamsPartial(orbitParams, withMa) ==
    [orbitParams EXCEPT !.inc = TimesDegToRad(@),
                        !.node = TimesDegToRad(@),
                        !.ma = IF withMa THEN TimesDegToRad(@) ELSE @]

\* the copy made of a record of the data files, its angles turned to radians
\* (withMa: ma as well, as for planets, NEOs and shower parent bodies)
processOrbitParams(orbitParams, withMa) ==
    [orbitParams EXCEPT !.inc = TimesDegToRad(@),
                        !.node = TimesDegToRad(@),
                        !.peri = TimesDegToRad(@),
                        !.ma = IF withMa THEN TimesDegToRad(@) ELSE @]

\* variant: a record the validator refuses is tracked with zeroed elements
buildBodyZeroed(entry) ==
    IF validateOrbitParams(entry.orbitParams).k # "obj"
    THEN <<Body(entry.name,
                [entry EXCEPT !.orbitParams = Params(Num(0), Num(0), Num(0), Num(0), Num(0),
                                                     Num(0), Num(0))],
                NoOrbit, Origin)>>
    ELSE With(processOrbitParams(entry.orbitParams, TRUE), LAMBDA processedOrbitParams :
         With(createOrbitSafe(processedOrbitParams), LAMBDA orbit :
            IF orbit.k # "line" THEN <<>>
            ELSE <<Body(entry.name, [entry EXCEPT !.orbitParams = processedOrbitParams], orbit,
                        getOrbitPositionSafe(processedOrbitParams.a, processedOrbitParams.e,
                                             Num(0), processedOrbitParams.transformMatrix))>>))

\* one iteration of the for loop of initializePlanets / initializeNeos: the
\* bodies pushed for the entry (none when it is skipped)
buildBody(entry) ==
    IF validateOrbitParams(entry.orbitParams).k # "obj" THEN <<>>
    ELSE With(processOrbitParams(entry.orbitParams, TRUE), LAMBDA processedOrbitParams :
         With(createOrbitSafe(processedOrbitParams), LAMBDA orbit :
            IF orbit.k # "line" THEN <<>>
            ELSE <<Body(entry.name, [entry EXCEPT !.orbitParams = processedOrbitParams], orbit,
                        getOrbitPositionSafe(processedOrbitParams.a, processedOrbitParams.e,
                                             Num(0), processedOrbitParams.transformMatrix))>>))

RECURSIVE buildBodies(_, _, _)
\* the loop over Object.entries(json), stopping once max bodies were pushed
buildBodies(entries, acc, max) ==
    IF entries = <<>> \/ Len(acc) = max THEN acc
    ELSE buildBodies(Tail(entries), acc \o buildBody(Head(entries)), max)

MAX_VISIBLE_NEOS == 999
MAX_VISIBLE_SHOWERS == 999
\* initializePlanets has no cap
NoCap == -1

\* new Shower(showerName, code, [orbitMesh], null, 'Unknown')
Shower(name, code, orbitMeshes, parentBodyMesh, parentBodyName, parentParams) ==
    [name |-> name, code |-> code, orbitMeshes |-> orbitMeshes,
     parentBodyMesh |-> parentBodyMesh, parentBodyName |-> parentBodyName,
     parentParams |-> parentParams]

ShowerIndex(sh, code) ==
    IF \E i \in 1..Len(sh) : sh[i].code = code
    THEN CHOOSE i \in 1..Len(sh) : sh[i].code = code /\ \A j \in 1..(i - 1) : sh[j].code # code
    ELSE 0

\* parentBodies.find(([name, data]) => data.extraParams.Code === code)
ParentIndex(parents, code) == ShowerIndex(parents, code)

\* the parent-body part of one iteration of initializeShowers
attachParent(shower, parents) ==
    With(ParentIndex(parents, shower.code), LAMBDA pi :
        IF pi = 0 \/ shower.parentBodyMesh.k = "vec" THEN shower
        ELSE IF validateOrbitParams(parents[pi].orbitParams).k # "obj" THEN shower
        ELSE With(processOrbitParams(parents[pi].orbitParams, TRUE),
                  LAMBDA processedParentOrbitParams :
             With(createOrbitSafe(processedParentOrbitParams), LAMBDA parentOrbit :
                IF parentOrbit.k # "line" THEN shower
                ELSE [shower EXCEPT
                        !.parentBodyMesh =
                            getOrbitPositionSafe(processedParentOrbitParams.a,
                                                 processedParentOrbitParams.e, Num(0),
                                                 processedParentOrbitParams.transformMatrix),
                        !.parentBodyName = parents[pi].name,
                        !.parentParams = processedParentOrbitParams,
                        !.orbitMeshes = <<parentOrbit>> \o @])))

\* one iteration of the for loop of initializeShowers
addShower(sh, entry, parents) ==
    IF validateOrbitParams(entry.orbitParams).k # "obj" THEN sh
    ELSE With(createOrbitSafe(processOrbitParams(entry.orbitParams, FALSE)), LAMBDA orbitMesh :
         With(ShowerIndex(sh, entry.code), LAMBDA si :
            IF orbitMesh.k # "line" THEN sh
            ELSE IF si = 0
            THEN Append(sh, attachParent(Shower(entry.name, entry.code, <<orbitMesh>>, NoMesh,
                                                "Unknown", NoParams), parents))
            ELSE [sh EXCEPT ![si] = attachParent([@ EXCEPT !.orbitMeshes = Append(@, orbitMesh)],
                                                 parents)]))

RECURSIVE buildShowers(_, _, _, _)
\* the loop of initializeShowers; visible counts the showers created by it
buildShowers(entries, parents, sh, visible) ==
    IF entries = <<>> \/ visible = MAX_VISIBLE_SHOWERS THEN sh
    ELSE With(addShower(sh, Head(entries), parents), LAMBDA sh1 :
            buildShowers(Tail(entries), parents, sh1,
                         IF Len(sh1) > Len(sh) THEN visible + 1 ELSE visible))

----------------------------------------------------------------------------
(* The data files *)

\* an entry of a data file: its key, its orbitParams, and of its renderParams
\* and extraParams what the component reads (Code, is_dwarf, 'PS max', diameter)
NoRenderParams == [k |-> "absent", is_dwarf |-> Absent]
RenderParams(is_dwarf) == [k |-> "obj", is_dwarf |-> is_dwarf]
ExtraParams(psMax, diameter) == [k |-> "obj", PSmax |-> psMax, diameter |-> diameter]
Entry(name, code, orbitParams) ==
    [name |-> name, code |-> code, orbitParams |-> orbitParams,
     renderParams |-> NoRenderParams, extraParams |-> ExtraParams(Undefined, Undefined)]
\* an entry of planet_data.json and one of risk_list_neo_data.json
PlanetEntry(name, orbitParams, is_dwarf) ==
    [Entry(name, "", orbitParams) EXCEPT !.renderParams = RenderParams(is_dwarf)]
NeoEntry(name, orbitParams, psMax, diameter) ==
    [Entry(name, "", orbitParams) EXCEPT !.extraParams = ExtraParams(psMax, diameter)]

\* epochs that put the bodies 10 ms of simulated time before a quarter turn when
\* the page is opened
EpochJD == 2460619
EpochMJD == 59888

EarthRaw == Params(Num(100), Num(17), Num(0), Num(0), Num(90), Num(0), Num(EpochJD))
VenusRaw == Params(Num(100), Num(200), Num(0), Num(90), Num(0), Num(90), Num(EpochJD))
HyperbolicRaw == Params(Num(100), Num(1200), Num(90), Num(180), Num(270), Num(90), Num(EpochJD))
ParabolicRaw == Params(Num(100), Num(1000), Num(0), Num(90), Num(0), Num(90), Num(EpochJD))
NegativeARaw == Params(Num(-500), Num(50), Num(0), Num(0), Num(0), Num(0), Num(EpochJD))
NaNIncRaw == Params(Num(100), Num(50), NaN, Num(0), Num(0), Num(0), Num(EpochJD))
NoMaRaw == Params(Num(100), Num(200), Num(90), Num(90), Num(0), Undefined, Num(EpochJD))
NegativeERaw == Params(Num(100), Num(-1000), Num(0), Num(0), Num(0), Num(0), Num(EpochJD))
NeoRaw == Params(Num(100), Num(500), Num(180), Num(0), Num(90), Num(180), Num(EpochMJD))
NeoHyperbolicRaw == Params(Num(100), Num(1500), Num(0), Num(0), Num(0), Num(0), Num(EpochMJD))
\* a record that comes with a transformMatrix whose second row is missing
BrokenMatrixRaw ==
    [Params(Num(100), Num(500), Num(0), Num(0), Num(0), Num(0), Num(EpochMJD))
        EXCEPT !.transformMatrix = Matrix(Row(Num(1), Num(0), Num(0)),
                                          [k |-> "undef", c |-> <<>>],
                                          Row(Num(0), Num(0), Num(1)))]
StreamRaw == Params(Num(100), Num(900), Num(90), Num(0), Num(180), Undefined, Undefined)
ParentRaw == Params(Num(100), Num(900), Num(90), Num(0), Num(180), Num(270), Num(EpochJD))

\* what readJSON can deliver for each file; <<>> with ok = FALSE is the null of
\* a failed fetch
File(entries) == [ok |-> TRUE, entries |-> entries]
FetchFailed == [ok |-> FALSE, entries |-> <<>>]

\* the data directories the page can be served with: what readJSON delivers for
\* planets, NEOs, showers and shower parent bodies
DataSets ==
    << [planets |-> FetchFailed,
        neos |-> File(<<NeoEntry("2010 RF12", NeoRaw, Num(-317), Undefined)>>),
        showers |-> File(<<Entry("Geminids", "GEM", NegativeARaw),
                           Entry("Perseids", "PER", StreamRaw),
                           Entry("Orionids", "ORI", StreamRaw)>>),
        parents |-> File(<<Entry("109P/Swift-Tuttle", "PER", ParentRaw),
                           Entry("1P/Halley", "ORI", NaNIncRaw)>>)],
       [planets |-> File(<<PlanetEntry("Earth", EarthRaw, Bool(FALSE)),
                           PlanetEntry("Ceres", HyperbolicRaw, Bool(TRUE))>>),
        neos |-> FetchFailed,
        showers |-> File(<<Entry("Lyrids", "LYR", StreamRaw),
                           Entry("Ursids", "URS", NegativeERaw),
                           Entry("April Lyrids", "LYR", StreamRaw)>>),
        parents |-> File(<<Entry("C/1861 G1", "LYR", NoMaRaw)>>)],
       [planets |-> File(<<PlanetEntry("Pluto", NoParams, Bool(TRUE)),
                           PlanetEntry("Earth", ParabolicRaw, Bool(FALSE)),
                           PlanetEntry("Eris", NaNIncRaw, Bool(TRUE))>>),
        neos |-> File(<<NeoEntry("1979 XB", NegativeERaw, Num(-299), Num(1)),
                        NeoEntry("2000 SG344", NegativeARaw, Num(-277), Num(1)),
                        NeoEntry("2006 RH120", BrokenMatrixRaw, Num(-500), Num(1)),
                        NeoEntry("2008 JL3", NeoHyperbolicRaw, Num(-668), Num(1))>>),
        showers |-> FetchFailed,
        parents |-> FetchFailed],
       [planets |-> File(<<PlanetEntry("Earth", EarthRaw, Bool(FALSE)),
                           PlanetEntry("Venus", VenusRaw, Absent)>>),
        neos |-> File(<<NeoEntry("2010 RF12", NeoRaw, Num(-317), Undefined)>>),
        showers |-> File(<<Entry("Perseids", "PER", StreamRaw)>>),
        parents |-> File(<<Entry("109P/Swift-Tuttle", "PER", ParentRaw)>>)] >>

\* initializePlanets, resumed when readJSON delivers the file; the first fetch
\* to resolve fixes which data directory answers
LoadPlanets(d) ==
    /\ pc = "planets"
    /\ dataset' = d
    /\ planets' = IF DataSets[d].planets.ok
                  THEN buildBodies(DataSets[d].planets.entries, planets, NoCap) ELSE planets
    /\ pc' = "neos"
    /\ lastOp' = Op("initializePlanets", 0, "", Time(0, 0), NoOutcome)
    /\ UNCHANGED <<timeRef, wall, mounted, rafPending, neos, showers, ctl,
                   torn, scene, filterConditions, flt>>
    /\ UNCHANGED serviceVars

\* initializeNeos
LoadNeos ==
    /\ pc = "neos"
    /\ neos' = IF DataSets[dataset].neos.ok
               THEN buildBodies(DataSets[dataset].neos.entries, neos,
                                Len(neos) + MAX_VISIBLE_NEOS)
               ELSE neos
    /\ pc' = "showers"
    /\ lastOp' = Op("initializeNeos", 0, "", Time(0, 0), NoOutcome)
    /\ UNCHANGED <<timeRef, wall, mounted, rafPending, planets, showers, ctl, dataset,
                   torn, scene, filterConditions, flt>>
    /\ UNCHANGED serviceVars

\* initializeShowers, and the end of initScene: updateOrbits(filterConditions),
\* with the filterConditions of the render in which the effect was created
LoadShowers ==
    /\ pc = "showers"
    /\ showers' = IF DataSets[dataset].showers.ok /\ DataSets[dataset].parents.ok
                  THEN buildShowers(DataSets[dataset].showers.entries,
                                    DataSets[dataset].parents.entries, showers, 0)
                  ELSE showers
    /\ scene' = updateOrbits(scene, planets, neos, showers', FilterConditions)
    /\ pc' = "done"
    /\ lastOp' = Op("initializeShowers", 0, "", Time(0, 0), NoOutcome)
    /\ UNCHANGED <<timeRef, wall, mounted, rafPending, planets, neos, ctl, dataset,
                   torn, filterConditions, flt>>
    /\ UNCHANGED serviceVars

Load ==
    \/ \E d \in 1..Len(DataSets) : LoadPlanets(d)
    \/ LoadNeos
    \/ LoadShowers

ClockNext ==
    \/ Mount
    \/ \E d \in FrameGaps : Frame(d)
    \/ \E action \in TimeActions \ {"now"} : TimeControl(action, 0) /\ UNCHANGED ctl
    \/ \E delay \in ClickDelays : TimeControl("now", delay) /\ UNCHANGED ctl

\* the clock alone: the data files are still being fetched
SpecClock == Init /\ [][ClockNext]_vars

Click ==
    /\ ctl < MaxControls
    /\ ctl' = ctl + 1
    /\ \/ \E action \in TimeActions \ {"now"} : TimeControl(action, 0)
       \/ \E delay \in ClickDelays : TimeControl("now", delay)

Next ==
    \/ Mount
    \/ \E d \in FrameGaps : Frame(d)
    \/ Click
    \/ Load

Spec == Init /\ [][Next]_vars

FilterOp(type, value) == [op |-> "handleFilterChange", type |-> type, value |-> value]

\* a click on one of the five type checkboxes; each shows shownTypes[type], so
\* that the click hands its negation to the handler
FilterChange(type, value) ==
    /\ mounted
    /\ ~torn
    /\ flt < MaxFilterChanges
    /\ flt' = flt + 1
    /\ filterConditions' = handleFilterChange(filterConditions, type, value)
    /\ scene' = updateOrbits(scene, planets, neos, showers,
                             handleFilterChange(filterConditions, type, value))
    /\ lastOp' = FilterOp(type, value)
    /\ UNCHANGED <<timeRef, wall, mounted, rafPending, pc, planets, neos, showers, ctl, dataset,
                   torn>>
    /\ UNCHANGED serviceVars

\* the view is torn down: the function the mount effect returned runs
Unmount ==
    /\ mounted
    /\ ~torn
    /\ torn' = TRUE
    /\ rafPending' = cleanup(rafPending)
    /\ lastOp' = Op("cleanup", 0, "", Time(0, 0), NoOutcome)
    /\ UNCHANGED <<timeRef, wall, mounted, pc, planets, neos, showers, ctl, dataset,
                   scene, filterConditions, flt>>
    /\ UNCHANGED serviceVars

\* a frame of the view specification: up to MaxViewWall ms, every solver call
\* succeeding
ViewFrame(d) ==
    /\ Frame(d)
    /\ wall' <= MaxViewWall
    /\ \A i \in DOMAIN lastOp'.out : lastOp'.out[i] = "ok"

ViewNext ==
    \/ Mount
    \/ \E d \in FrameGaps : ViewFrame(d)
    \/ Load
    \/ \E type \in ShownTypeNames : FilterChange(type, ~filterConditions.shownTypes[type])
    \/ Unmount

\* the view from mount to teardown: frames, loads and filter changes
SpecView == Init /\ [][ViewNext]_vars

----------------------------------------------------------------------------
(* Properties of the frame loop and of the clock controls *)

\* the step is a frame callback that ran time ms after the page's time origin
IsFrame == lastOp'.op = "animate"
\* wall-clock ms between the frame of this step and the last effective frame
FrameDeltaMs == lastOp'.time - (IF timeRef.lastFrameTime = NoFrameTime THEN 0
                                ELSE timeRef.lastFrameTime)
\* the frame of this step is not rate-limited: 16.67 ms or more have passed
IsEffectiveFrame == IsFrame /\ FrameDeltaMs * 100 >= 1667
\* deltaTime_ms * TIMESPEEDS[timeSpeedIndex] / 1000 days, in simulated ms
FrameDeltaSim == FrameDeltaMs * TIMESPEEDS[timeRef.timeSpeedIndex + 1]
\* t plus d ms, as [day, ms]
Later(t, d) == [day |-> t.day + ((t.ms + d) \div 86400000), ms |-> (t.ms + d) % 86400000]

\* the state of a body after a position update is attempted at time t, the
\* solver call ending as outcome says
Attempted(body, t, outcome) ==
    LET nu == Anomaly(body.orbitParams, t, outcome)
        p == ensureTransformMatrix(body.orbitParams)
    IN  IF nu.k # "num" THEN body
        ELSE [body EXCEPT !.orbitParams = p,
                          !.pos = setPosition(@, getOrbitPositionSafe(p.a, p.e, nu,
                                                                      p.transformMatrix))]

\* C1: a frame that is not rate-limited advances JD and MJD by exactly
\* deltaTime_ms * TIMESPEEDS[timeSpeedIndex] / 1000 days, deltaTime_ms being the
\* wall-clock time since the last effective frame, and then attempts a position
\* update of every tracked planet (at the new JD) and NEO (at the new MJD).
C1_EffectiveFrameAdvancesAndUpdates ==
    [][ IsEffectiveFrame =>
            /\ timeRef'.JD = Later(timeRef.JD, FrameDeltaSim)
            /\ timeRef'.MJD = Later(timeRef.MJD, FrameDeltaSim)
            /\ timeRef'.lastFrameTime = lastOp'.time
            /\ Len(planets') = Len(planets)
            /\ Len(neos') = Len(neos)
            /\ \A i \in 1..Len(planets) :
                    planets'[i] = Attempted(planets[i], timeRef'.JD, lastOp'.out[i])
            /\ \A i \in 1..Len(neos) :
                    neos'[i] = Attempted(neos[i], timeRef'.MJD, lastOp'.out[Len(planets) + i])
      ]_vars

\* an effective frame has just run with planets and NEOs tracked, and moved a
\* planet and a NEO off the origin
C1_Witness ==
    /\ lastOp.op = "animate"
    /\ timeRef.lastFrameTime = lastOp.time
    /\ \E i \in 1..Len(planets) : planets[i].pos # Origin
    /\ \E i \in 1..Len(neos) : neos[i].pos # Origin

\* C2: a frame less than 16.67 ms after the last effective frame changes
\* nothing of the simulation: JD, MJD, the last-frame timestamp and every body
\* position stay as they were.
C2_RateLimitedFrameIsNoOp ==
    [][ (IsFrame /\ FrameDeltaMs * 100 < 1667) =>
            /\ timeRef' = timeRef
            /\ planets' = planets
            /\ neos' = neos
            /\ showers' = showers
      ]_vars

\* a frame was skipped 10 ms after an effective one, with bodies away from the
\* origin
C2_Witness ==
    /\ lastOp.op = "animate"
    /\ timeRef.lastFrameTime # NoFrameTime
    /\ lastOp.time = timeRef.lastFrameTime + 10
    /\ \E i \in 1..Len(planets) : planets[i].pos # Origin

\* the step is a click on the time button action
IsClick(action) == lastOp'.op = "timeControl" /\ lastOp'.action = action

\* C3: 'fastforward' raises timeSpeedIndex by exactly one below the last index
\* (13) and leaves it at 13; 'fastbackward' lowers it by exactly one above 0 and
\* leaves it at 0; after any sequence of clock actions and frames the index is
\* within the 14-entry table.
C3_SpeedIndexStepsAndStaysInTable ==
    /\ [](timeRef.timeSpeedIndex \in 0..13 /\ Len(TIMESPEEDS) = 14)
    /\ [][ /\ IsClick("fastforward") =>
                timeRef'.timeSpeedIndex = IF timeRef.timeSpeedIndex < 13
                                          THEN timeRef.timeSpeedIndex + 1 ELSE 13
           /\ IsClick("fastbackward") =>
                timeRef'.timeSpeedIndex = IF timeRef.timeSpeedIndex > 0
                                          THEN timeRef.timeSpeedIndex - 1 ELSE 0
           /\ IsFrame => timeRef'.timeSpeedIndex = timeRef.timeSpeedIndex
      ]_vars

\* 'fastforward' was clicked and the index is at the fast end of the table
C3_Witness ==
    /\ lastOp.op = "timeControl"
    /\ lastOp.action = "fastforward"
    /\ timeRef.timeSpeedIndex = 13

\* C4: after 'now', JD is the Julian Date of the wall-clock reading (Unix days
\* + 2440587.5), MJD is that of the same instant (JD - 2400000.5), and the
\* speed is the real-time forward entry, index 7, one second per second.
C4_NowResetsClockToWallTime ==
    (lastOp.op = "timeControl" /\ lastOp.action = "now") =>
        /\ timeRef.JD = Later([day |-> lastOp.now.day + 2440587, ms |-> lastOp.now.ms],
                              43200000)
        /\ Later(timeRef.MJD, 43200000) = [day |-> timeRef.JD.day - 2400000,
                                           ms |-> timeRef.JD.ms]
        /\ timeRef.timeSpeedIndex = 7
        /\ TIMESPEEDS[7 + 1] = 1

\* 'now' was clicked after frames had advanced the clock at another speed, 3 ms
\* after the last frame
C4_Witness ==
    /\ lastOp.op = "timeControl"
    /\ lastOp.action = "now"
    /\ timeRef.lastFrameTime # NoFrameTime
    /\ lastOp.now = DateNow(wall + 3)

\* the parent body of a shower after a position update is attempted at time t
ParentAttempted(shower, t, outcome) ==
    LET b == Attempted([orbitParams |-> shower.parentParams, pos |-> shower.parentBodyMesh],
                       t, outcome)
    IN  [shower EXCEPT !.parentParams = b.orbitParams, !.parentBodyMesh = b.pos]

\* C5: in an effective frame the clock is advanced exactly once, before any
\* body is updated, and stays at that value to the end of the frame: every
\* planet and shower parent body the frame updates is evaluated at that one JD
\* and every NEO at that one MJD, which is the same instant (JD - 2400000.5);
\* a click on a time button never moves a body.
C5_OneClockValuePerTick ==
    [][ /\ IsEffectiveFrame =>
            LET jd == Later(timeRef.JD, FrameDeltaSim)
                mjd == Later(timeRef.MJD, FrameDeltaSim)
                n == Len(planets) + Len(neos)
            IN  /\ timeRef'.JD = jd
                /\ timeRef'.MJD = mjd
                /\ Later(mjd, 43200000) = [day |-> jd.day - 2400000, ms |-> jd.ms]
                /\ \A i \in 1..Len(planets) :
                        planets'[i] # planets[i] =>
                            planets'[i] = Attempted(planets[i], jd, lastOp'.out[i])
                /\ \A i \in 1..Len(neos) :
                        neos'[i] # neos[i] =>
                            neos'[i] = Attempted(neos[i], mjd, lastOp'.out[Len(planets) + i])
                /\ \A i \in 1..Len(showers) :
                        showers'[i] # showers[i] =>
                            showers'[i] = ParentAttempted(showers[i], jd, lastOp'.out[n + i])
        /\ lastOp'.op = "timeControl" =>
            planets' = planets /\ neos' = neos /\ showers' = showers
      ]_vars

\* an effective frame has just moved a planet, a NEO and a shower parent body
C5_Witness ==
    /\ lastOp.op = "animate"
    /\ timeRef.lastFrameTime = lastOp.time
    /\ \E i \in 1..Len(planets) : planets[i].pos # Origin
    /\ \E i \in 1..Len(neos) : neos[i].pos # Origin
    /\ \E i \in 1..Len(showers) :
            showers[i].parentBodyMesh.k = "vec" /\ showers[i].parentBodyMesh # Origin

\* the position resolved for a body whose true anomaly at time t is nu
Resolved(body, nu) ==
    LET p == ensureTransformMatrix(body.orbitParams)
    IN  getOrbitPositionSafe(p.a, p.e, nu, p.transformMatrix)

\* C6: when the true anomaly of a body cannot be computed in a frame (the
\* solver throws or returns a non-finite number) the body stays exactly where
\* it was, not at the origin; in every effective frame in which the solver
\* succeeds for it, the body is put at the position resolved for that anomaly.
C6_FailedAnomalyFreezesBody ==
    [][ IsEffectiveFrame =>
            /\ \A i \in 1..Len(planets) :
                  LET nu == Anomaly(planets[i].orbitParams, timeRef'.JD, lastOp'.out[i])
                  IN  planets'[i].pos = IF nu.k = "num" THEN Resolved(planets[i], nu)
                                        ELSE planets[i].pos
            /\ \A i \in 1..Len(neos) :
                  LET nu == Anomaly(neos[i].orbitParams, timeRef'.MJD,
                                    lastOp'.out[Len(planets) + i])
                  IN  neos'[i].pos = IF nu.k = "num" THEN Resolved(neos[i], nu)
                                     ELSE neos[i].pos
      ]_vars

\* the solver has just failed for a planet that an earlier frame had moved off
\* the origin
C6_Witness ==
    /\ lastOp.op = "animate"
    /\ timeRef.lastFrameTime = lastOp.time
    /\ \E i \in 1..Len(planets) : lastOp.out[i] # "ok" /\ planets[i].pos # Origin

\* C8: a failure while one body is updated stays with that body: every other
\* planet and NEO is still updated in the same frame, and the frame callback
\* is scheduled again.
C8_FailureConfinedToOneBody ==
    [][ /\ IsFrame => rafPending'
        /\ (IsEffectiveFrame /\ \E k \in DOMAIN lastOp'.out : lastOp'.out[k] # "ok") =>
            /\ \A i \in 1..Len(planets) :
                    lastOp'.out[i] = "ok" =>
                        planets'[i] = Attempted(planets[i], timeRef'.JD, "ok")
            /\ \A i \in 1..Len(neos) :
                    lastOp'.out[Len(planets) + i] = "ok" =>
                        neos'[i] = Attempted(neos[i], timeRef'.MJD, "ok")
      ]_vars

\* the update of the first planet has just thrown, and the planet after it
\* and a NEO are where the frame put them
C8_Witness ==
    /\ lastOp.op = "animate"
    /\ timeRef.lastFrameTime = lastOp.time
    /\ rafPending
    /\ Len(planets) >= 2
    /\ lastOp.out[1] = "throw"
    /\ planets[2].orbitParams.transformMatrix.k = "array"
    /\ planets[2].pos # Origin
    /\ \E i \in 1..Len(neos) : neos[i].pos # Origin

----------------------------------------------------------------------------
(* The guarded helpers, called with any arguments *)

PositionNumbers == {Num(100), Num(0), NaN, PosInf, NegInf, Undefined, Null}
PositionEccentricities == {Num(17), Num(999), Num(1000), Num(1200), NaN, Undefined}
PositionAnomalies == {Num(0), Num(1571), Num(3142), NaN, PosInf, Null}
UnitMatrix == Matrix(Row(Num(1), Num(0), Num(0)), Row(Num(0), Num(1), Num(0)),
                     Row(Num(0), Num(0), Num(1)))
PositionMatrices ==
    { NoMatrix,
      [k |-> "object", rows |-> <<>>],
      [k |-> "array", rows |-> <<Row(Num(1), Num(0), Num(0)), Row(Num(0), Num(1), Num(0))>>],
      UnitMatrix,
      Matrix(Row(Num(0), Num(-1), Num(0)), Row(NaN, Num(0), Num(0)),
             Row(Num(0), Num(0), Num(1))),
      Matrix(Row(Num(1), Num(0), Num(0)), Row(Num(0), PosInf, Num(0)),
             Row(Num(0), Num(0), Num(1))),
      Matrix(Row(Num(1), Num(0), Num(0)), [k |-> "undef", c |-> <<>>],
             Row(Num(0), Num(0), Num(1))) }

ParamNumbers == {Num(100), Num(0), Num(-500), NaN, PosInf, Str, Undefined}
ParamEccentricities == {Num(17), Num(0), Num(-1000), Num(1000), Num(1500), NaN, Null}
ParamAngles == {Num(90), NaN, NegInf, Undefined}
ParamRecords ==
    {NoParams, Rejected} \cup
    { Params(a, e, inc, node, peri, ma, Num(EpochJD)) :
        a \in ParamNumbers, e \in ParamEccentricities, inc \in ParamAngles,
        node \in {Num(0), NegInf}, peri \in {Num(180), Str}, ma \in {Num(0), Undefined} }

Call(op, args, result) == [op |-> op, args |-> args, result |-> result]
\* a call, with the objects it was handed as they are after it
CallLeaving(op, args, result, after) ==
    [op |-> op, args |-> args, result |-> result, after |-> after]

\* The helpers are pure: what a call returns depends on its arguments alone, so
\* each behaviour makes one call, on the fresh page.
CallGetOrbitPositionSafe ==
    /\ lastOp.op = "init"
    /\ \E a \in PositionNumbers, e \in PositionEccentricities,
          trueAnomaly \in PositionAnomalies, transformMatrix \in PositionMatrices :
            lastOp' = Call("getOrbitPositionSafe", <<a, e, trueAnomaly, transformMatrix>>,
                           getOrbitPositionSafe(a, e, trueAnomaly, transformMatrix))
    /\ UNCHANGED <<timeRef, wall, mounted, rafPending, pc, planets, neos, showers, ctl, dataset,
                   torn, scene, filterConditions, flt>>
    /\ UNCHANGED serviceVars

CallValidateOrbitParams ==
    /\ lastOp.op = "init"
    /\ \E orbitParams \in ParamRecords :
            lastOp' = CallLeaving("validateOrbitParams", <<orbitParams>>,
                                  validateOrbitParamsCall(orbitParams).result,
                                  <<validateOrbitParamsCall(orbitParams).orbitParams>>)
    /\ UNCHANGED <<timeRef, wall, mounted, rafPending, pc, planets, neos, showers, ctl, dataset,
                   torn, scene, filterConditions, flt>>
    /\ UNCHANGED serviceVars

CallsNext == CallGetOrbitPositionSafe \/ CallValidateOrbitParams

SpecCalls == Init /\ [][CallsNext]_vars

\* the value is the number NaN, Infinity or -Infinity, or becomes NaN as a number
NotFinite(x) == x.k \in {"nan", "inf", "undef", "str"}
FiniteVec(pos) == pos.k = "vec" /\ ~NotFinite(pos.x) /\ ~NotFinite(pos.y) /\ ~NotFinite(pos.z)

\* C7: getOrbitPositionSafe returns exactly (0,0,0) when a, e or the true
\* anomaly is NaN or infinite, when the transform matrix is missing or is not an
\* array of 3 rows, when the position computation throws, or when the computed
\* position has a non-finite coordinate; otherwise it returns the computed
\* position; what it returns never has a non-finite coordinate.
C7_PositionIsOriginOrComputed ==
    lastOp.op = "getOrbitPositionSafe" =>
        LET a == lastOp.args[1]
            e == lastOp.args[2]
            nu == lastOp.args[3]
            tm == lastOp.args[4]
            computed == getOrbitPosition(a, e, nu, tm)
            fallback == \/ NotFinite(a) \/ NotFinite(e) \/ NotFinite(nu)
                        \/ tm.k # "array"
                        \/ Len(tm.rows) # 3
                        \/ computed.k = "throw"
                        \/ ~FiniteVec(computed)
        IN  /\ lastOp.result = IF fallback THEN Vec(Num(0), Num(0), Num(0)) ELSE computed
            /\ FiniteVec(lastOp.result)

\* the computation ran on finite arguments and a 3-row matrix and gave a
\* non-finite coordinate, and the origin was returned
C7_Witness ==
    /\ lastOp.op = "getOrbitPositionSafe"
    /\ lastOp.args[1].k = "num" /\ lastOp.args[2].k = "num" /\ lastOp.args[3].k = "num"
    /\ lastOp.args[4].k = "array" /\ Len(lastOp.args[4].rows) = 3
    /\ \A i \in 1..3 : lastOp.args[4].rows[i].k = "row"
    /\ ~FiniteVec(getOrbitPosition(lastOp.args[1], lastOp.args[2], lastOp.args[3],
                                   lastOp.args[4]))
    /\ lastOp.result = Origin

\* C9: validateOrbitParams returns null when the record is absent, when one of
\* a, e, inc, node, peri is not a number, is NaN or is infinite, or when a <= 0;
\* for every other record it returns a record with the same a, inc, node, peri
\* and mean anomaly, which need not be a number.
C9_ValidateRejectsExactlyBadRecords ==
    lastOp.op = "validateOrbitParams" =>
        LET orbitParams == lastOp.args[1]
            number(x) == x.k = "num"
            refused == \/ orbitParams.k # "obj"
                       \/ ~number(orbitParams.a) \/ ~number(orbitParams.e)
                       \/ ~number(orbitParams.inc) \/ ~number(orbitParams.node)
                       \/ ~number(orbitParams.peri)
                       \/ orbitParams.a.v <= 0
        IN  IF refused THEN lastOp.result.k = "null"
            ELSE /\ lastOp.result.k = "obj"
                 /\ lastOp.result.a = orbitParams.a
                 /\ lastOp.result.inc = orbitParams.inc
                 /\ lastOp.result.node = orbitParams.node
                 /\ lastOp.result.peri = orbitParams.peri
                 /\ lastOp.result.ma = orbitParams.ma

\* a record with five finite required fields and no mean anomaly was accepted
C9_Witness ==
    /\ lastOp.op = "validateOrbitParams"
    /\ lastOp.args[1].k = "obj"
    /\ lastOp.args[1].ma.k = "undef"
    /\ lastOp.result.k = "obj"

\* C10: a body whose raw eccentricity is 1 or more is tracked with e = 0.999:
\* the record stored on every tracked planet, NEO and shower parent body, which
\* every position resolution for it uses, has e below 1.
C10_TrackedEccentricityBelowOne ==
    /\ \A i \in 1..Len(planets) : JsLt(planets[i].orbitParams.e, Num(1000))
    /\ \A i \in 1..Len(neos) : JsLt(neos[i].orbitParams.e, Num(1000))
    /\ \A i \in 1..Len(showers) :
            showers[i].parentBodyMesh.k = "vec" => JsLt(showers[i].parentParams.e, Num(1000))

\* C11: every record that validateOrbitParams returns (every result that is
\* not a rejection) has an eccentricity in the half-open range [0, 1).
C11_ValidatedEccentricityInRange ==
    (lastOp.op = "validateOrbitParams" /\ lastOp.result.k = "obj") =>
        /\ lastOp.result.e.k = "num"
        /\ 0 <= lastOp.result.e.v
        /\ lastOp.result.e.v < 1000

----------------------------------------------------------------------------
(* Properties of the loaders *)

\* the step is the resumption of the loader op
IsLoad(op) == lastOp'.op = op
\* the validator accepts the record of a data-file entry
Accepted(entry) == validateOrbitParams(entry.orbitParams).k = "obj"
\* the entries of a file without those the validator refuses
WithoutRejected(entries) == SelectSeq(entries, Accepted)
\* the entries of a file, none when the fetch failed
EntriesOf(file) == IF file.ok THEN file.entries ELSE <<>>
\* a tracked body was built from an accepted entry of the file, with its a and e
FromAccepted(body, entries) ==
    \E i \in 1..Len(entries) :
        /\ entries[i].name = body.name
        /\ Accepted(entries[i])
        /\ body.orbitParams.a = entries[i].orbitParams.a
        /\ body.orbitParams.e = entries[i].orbitParams.e
\* an orbit line can be drawn for the entry
Drawable(entry, withMa) ==
    createOrbitSafe(processOrbitParams(entry.orbitParams, withMa)).k = "line"

\* C12: a record the validator refuses leaves no trace in a loader: no Body is
\* built for it, the tracked lists are what they would be had the file not
\* contained it, no body with zeroed or default elements stands in for it, and
\* the records after it are still loaded.
C12_RejectedRecordIsSkipped ==
    [][ /\ IsLoad("initializePlanets") =>
            LET entries == EntriesOf(DataSets[dataset'].planets)
            IN  /\ planets' = buildBodies(WithoutRejected(entries), planets, NoCap)
                /\ Len(planets') <= Len(planets) + Len(WithoutRejected(entries))
                /\ \A i \in 1..Len(planets') : FromAccepted(planets'[i], entries)
                /\ \A i \in 1..Len(entries) :
                        (Accepted(entries[i]) /\ Drawable(entries[i], TRUE)) =>
                            \E j \in 1..Len(planets') : planets'[j].name = entries[i].name
        /\ IsLoad("initializeNeos") =>
            LET entries == EntriesOf(DataSets[dataset].neos)
            IN  /\ neos' = buildBodies(WithoutRejected(entries), neos,
                                       Len(neos) + MAX_VISIBLE_NEOS)
                /\ Len(neos') <= Len(neos) + Len(WithoutRejected(entries))
                /\ \A i \in 1..Len(neos') : FromAccepted(neos'[i], entries)
                /\ \A i \in 1..Len(entries) :
                        (Accepted(entries[i]) /\ Drawable(entries[i], TRUE)) =>
                            \E j \in 1..Len(neos') : neos'[j].name = entries[i].name
        /\ (IsLoad("initializeShowers") /\ DataSets[dataset].showers.ok
                                        /\ DataSets[dataset].parents.ok) =>
            LET entries == DataSets[dataset].showers.entries
                parents == DataSets[dataset].parents.entries
            IN  /\ showers' = buildShowers(WithoutRejected(entries), parents, showers, 0)
                /\ Len(showers') <= Len(showers) + Len(WithoutRejected(entries))
                /\ \A i \in 1..Len(showers') :
                        /\ \E j \in 1..Len(entries) :
                                /\ Accepted(entries[j])
                                /\ entries[j].name = showers'[i].name
                                /\ entries[j].code = showers'[i].code
                        /\ showers'[i].parentBodyMesh.k = "vec" =>
                                \E j \in 1..Len(parents) :
                                    /\ Accepted(parents[j])
                                    /\ parents[j].name = showers'[i].parentBodyName
                                    /\ parents[j].orbitParams.a = showers'[i].parentParams.a
                /\ \A i \in 1..Len(entries) :
                        (Accepted(entries[i]) /\ Drawable(entries[i], FALSE)) =>
                            \E j \in 1..Len(showers') : showers'[j].code = entries[i].code
      ]_vars

\* the planets, the NEOs and the showers were loaded from files in which a
\* refused record comes before an accepted one: one planet and one NEO are
\* tracked, and of the two showers one has no parent body, its parent's record
\* having been refused
C12_Witness ==
    \/ /\ lastOp.op = "initializeNeos"
       /\ dataset = 3
       /\ Len(planets) = 1 /\ planets[1].name = "Earth"
       /\ Len(neos) = 1 /\ neos[1].name = "2008 JL3"
    \/ /\ lastOp.op = "initializeShowers"
       /\ dataset = 1
       /\ Len(showers) = 2
       /\ showers[1].parentBodyMesh.k = "vec"
       /\ showers[2].code = "ORI" /\ showers[2].parentBodyMesh.k # "vec"

\* the orbit line that createOrbit generates for the entry of a data file
CurveOf(entry, withMa) ==
    createOrbit(validateOrbitParams(processOrbitParams(entry.orbitParams, withMa)))
\* a coordinate of the line is NaN or infinite, or its generation threw
Degenerate(curve) ==
    \E i \in 1..Len(curve.positions) :
        curve.positions[i].k = "throw" \/ ~FiniteVec(curve.positions[i])
\* a line all of whose coordinates are finite
FiniteCurve(curve) ==
    /\ curve.k = "line"
    /\ \A i \in 1..Len(curve.positions) : FiniteVec(curve.positions[i])
\* the entries of the file whose orbit line is degenerate
DegenerateEntries(entries, withMa) ==
    {i \in 1..Len(entries) : Accepted(entries[i]) /\ Degenerate(CurveOf(entries[i], withMa))}
\* nothing named name is drawn for the tracked list owner
NotInScene(sc, owner, name) == \A m \in sc : ~(m.owner = owner /\ m.name = name)

\* C13: orbit creation is all-or-nothing: when a coordinate of the generated
\* line is NaN or infinite, or its generation throws, createOrbitSafe returns
\* null and the loader adds neither the line nor a Body for it to the tracked
\* lists or to the scene; every line that is tracked or drawn has only finite
\* coordinates.
C13_OrbitCreationAllOrNothing ==
    /\ [](/\ \A i \in 1..Len(planets) : FiniteCurve(planets[i].orbitMesh)
          /\ \A i \in 1..Len(neos) : FiniteCurve(neos[i].orbitMesh)
          /\ \A i \in 1..Len(showers) :
                \A j \in 1..Len(showers[i].orbitMeshes) : FiniteCurve(showers[i].orbitMeshes[j])
          /\ scene \subseteq
                SceneFixtures \cup {addSun}
                    \cup UNION {MeshesOfBody("planets", planets[i]) : i \in 1..Len(planets)}
                    \cup UNION {MeshesOfBody("neos", neos[i]) : i \in 1..Len(neos)}
                    \cup UNION {MeshesOfShower(showers[i]) : i \in 1..Len(showers)})
    /\ [][ /\ IsLoad("initializePlanets") =>
                LET entries == EntriesOf(DataSets[dataset'].planets)
                IN  \A i \in DegenerateEntries(entries, TRUE) :
                        /\ createOrbitSafe(processOrbitParams(entries[i].orbitParams, TRUE))
                                = NoOrbit
                        /\ \A j \in 1..Len(planets') : planets'[j].name # entries[i].name
                        /\ Len(planets') < Len(planets) + Len(entries)
                        /\ NotInScene(scene', "planets", entries[i].name)
           /\ IsLoad("initializeNeos") =>
                LET entries == EntriesOf(DataSets[dataset].neos)
                IN  \A i \in DegenerateEntries(entries, TRUE) :
                        /\ createOrbitSafe(processOrbitParams(entries[i].orbitParams, TRUE))
                                = NoOrbit
                        /\ \A j \in 1..Len(neos') : neos'[j].name # entries[i].name
                        /\ Len(neos') < Len(neos) + Len(entries)
                        /\ NotInScene(scene', "neos", entries[i].name)
           /\ (IsLoad("initializeShowers") /\ DataSets[dataset].showers.ok
                                           /\ DataSets[dataset].parents.ok) =>
                LET entries == DataSets[dataset].showers.entries
                IN  \A i \in DegenerateEntries(entries, FALSE) :
                        /\ createOrbitSafe(processOrbitParams(entries[i].orbitParams, FALSE))
                                = NoOrbit
                        /\ \A j \in 1..Len(showers') : showers'[j].name # entries[i].name
                        /\ NotInScene(scene', "showers", entries[i].code)
      ]_vars

\* initScene has ended on files in which a NEO's line has NaN coordinates and
\* the generation of another's throws: neither is tracked or drawn, and the
\* planet and the NEO whose lines are finite are tracked, the planet drawn
C13_Witness ==
    /\ lastOp.op = "initializeShowers"
    /\ dataset = 3
    /\ \E i \in DegenerateEntries(DataSets[3].neos.entries, TRUE) :
            \E k \in 1..Len(OrbitSamples) :
                CurveOf(DataSets[3].neos.entries[i], TRUE).positions[k].k = "throw"
    /\ \E i \in DegenerateEntries(DataSets[3].neos.entries, TRUE) :
            \E k \in 1..Len(OrbitSamples) :
                CurveOf(DataSets[3].neos.entries[i], TRUE).positions[k].x.k = "nan"
    /\ Len(neos) = 1
    /\ neos[1].name = "2008 JL3"
    /\ Mesh("planets", "Earth", 1) \in scene

----------------------------------------------------------------------------
(* The frame callback, called on any clock *)

\* speed indexes in and outside the 14-entry table, and timestamps of the last
\* effective frame
TickIndexes == {-1, 0, 10, 13, 14}
TickLastFrames == {NoFrameTime, 10}
TickTimes == {17, 34}
\* the bodies of the fourth data directory, as the loaders build them
TickPlanets == buildBodies(DataSets[4].planets.entries, <<>>, NoCap)
TickNeos == buildBodies(DataSets[4].neos.entries, <<>>, MAX_VISIBLE_NEOS)

\* animate(time) on a clock whose speed index and last-frame timestamp are
\* any of the above, every solver call succeeding
CallAnimate ==
    /\ lastOp.op = "init"
    /\ \E index \in TickIndexes, last \in TickLastFrames, time \in TickTimes :
        LET tr == [timeRef EXCEPT !.MJD = JDToMJD(timeRef.JD),
                                  !.timeSpeedIndex = index, !.lastFrameTime = last]
        IN  lastOp' = Call("animate(time)", <<tr, TickPlanets, TickNeos, time>>,
                           animate(tr, TickPlanets, TickNeos, <<>>, time,
                                   [i \in 1..(Len(TickPlanets) + Len(TickNeos)) |-> "ok"]))
    /\ UNCHANGED <<timeRef, wall, mounted, rafPending, pc, planets, neos, showers, ctl, dataset,
                   torn, scene, filterConditions, flt>>
    /\ UNCHANGED serviceVars

\* the page's clock under frames and clicks, or one call of animate
TicksNext ==
    \/ CallAnimate
    \/ lastOp.op # "animate(time)" /\ ClockNext

SpecTicks == Init /\ [][TicksNext]_vars

\* a clock value is a finite number: whole days and 0 <= ms < 86400000
FiniteTime(t) == t.ms >= 0 /\ t.ms < 86400000
\* deltaTime * TIMESPEEDS[index] / 1000 is NaN or infinite: the index is outside
\* the table
NonFiniteDelta(tr) == tr.timeSpeedIndex < 0 \/ tr.timeSpeedIndex > 13

\* C15: after any sequence of frames and clock actions JD and MJD are finite
\* numbers; a frame whose time delta is NaN or infinite changes neither JD nor
\* MJD nor the position of any body, and a frame on a finite clock leaves a
\* finite clock.
C15_ClockStaysFinite ==
    /\ FiniteTime(timeRef.JD)
    /\ mounted => FiniteTime(timeRef.MJD)
    /\ lastOp.op = "animate(time)" =>
            LET tr == lastOp.args[1]
                r == lastOp.result
            IN  /\ FiniteTime(r.timeRef.JD)
                /\ FiniteTime(r.timeRef.MJD)
                /\ NonFiniteDelta(tr) =>
                        /\ r.timeRef.JD = tr.JD
                        /\ r.timeRef.MJD = tr.MJD
                        /\ \A i \in 1..Len(r.planets) : r.planets[i].pos = lastOp.args[2][i].pos
                        /\ \A i \in 1..Len(r.neos) : r.neos[i].pos = lastOp.args[3][i].pos

\* animate ran 34 ms after the time origin on a clock whose speed index is past
\* the end of the table: the delta is NaN, and two planets and a NEO are tracked
C15_Witness ==
    /\ lastOp.op = "animate(time)"
    /\ lastOp.args[1].timeSpeedIndex = 14
    /\ lastOp.args[1].lastFrameTime = NoFrameTime
    /\ lastOp.args[4] = 34
    /\ Len(lastOp.args[2]) = 2
    /\ Len(lastOp.args[3]) = 1
    /\ lastOp.result.timeRef.lastFrameTime = 34

----------------------------------------------------------------------------
(* Properties of the view: teardown, late loads and filters *)

\* C16: once the teardown hook of the view has run, no frame callback runs any
\* more: the frame that was scheduled is cancelled and none is scheduled
\* afterwards.
C16_NoTickAfterTeardown ==
    /\ [](torn => ~rafPending)
    /\ [][ /\ lastOp'.op = "cleanup" => (rafPending /\ ~rafPending')
           /\ torn => /\ lastOp'.op # "animate"
                      /\ ~rafPending'
                      /\ timeRef' = timeRef
      ]_vars

\* the view was torn down after effective frames had advanced the clock, and a
\* load has resumed since
C16_Witness ==
    /\ torn
    /\ ~rafPending
    /\ timeRef.lastFrameTime # NoFrameTime
    /\ lastOp.op \in {"initializePlanets", "initializeNeos", "initializeShowers"}

\* C17: when the view is torn down while a startup load (planets, NEOs or
\* showers) is still in flight, the result that arrives late is discarded:
\* after the teardown no Body is appended to a tracked list and no mesh is added
\* to the scene.
C17_LateLoadIsDiscarded ==
    [][ torn => /\ planets' = planets
                /\ neos' = neos
                /\ showers' = showers
                /\ scene' \subseteq scene
      ]_vars

\* the step is a completed call of handleFilterChange
IsFilterChange == lastOp'.op = "handleFilterChange"
\* all the meshes are children of the scene, or none is
Drawn(sc, meshes, shown) == IF shown THEN meshes \subseteq sc ELSE meshes \cap sc = {}

\* C18: when handleFilterChange(type, value) has completed, the scene holds the
\* orbit and body meshes of a planet, dwarf planet or NEO exactly when
\* checkPassesFilters is true for it under the new filter, and a shower's orbit
\* and parent meshes exactly when the type 'Shower' is shown; the shown/hidden
\* setting of every type but the one changed is what it was.
C18_FilterChangeRebuildsScene ==
    [][ IsFilterChange =>
            /\ filterConditions'.shownTypes[lastOp'.type] = lastOp'.value
            /\ \A type \in {"Planet", "Dwarf planet", "NEO", "Shower", "Sporadic"} :
                    type # lastOp'.type =>
                        filterConditions'.shownTypes[type] = filterConditions.shownTypes[type]
            /\ \A i \in 1..Len(planets) :
                    Drawn(scene', {Mesh("planets", planets[i].name, 1),
                                   Mesh("planets", planets[i].name, 0)},
                          checkPassesFilters(filterConditions', planets[i]))
            /\ \A i \in 1..Len(neos) :
                    Drawn(scene', {Mesh("neos", neos[i].name, 1),
                                   Mesh("neos", neos[i].name, 0)},
                          checkPassesFilters(filterConditions', neos[i]))
            /\ \A i \in 1..Len(showers) :
                    Drawn(scene',
                          {Mesh("showers", showers[i].code, j) :
                                j \in 1..Len(showers[i].orbitMeshes)}
                            \cup (IF showers[i].parentBodyMesh.k = "vec"
                                  THEN {Mesh("showers", showers[i].code, 0)} ELSE {}),
                          filterConditions'.shownTypes["Shower"])
            /\ planets' = planets /\ neos' = neos /\ showers' = showers
      ]_vars

\* with everything loaded and the showers already hidden, the planets were
\* hidden: Earth is gone from the scene, Venus, which has no is_dwarf and counts
\* as a NEO, and the NEO are drawn, and the shower stays hidden
C18_Witness ==
    /\ lastOp.op = "handleFilterChange"
    /\ lastOp.type = "Planet"
    /\ lastOp.value = FALSE
    /\ pc = "done"
    /\ dataset = 4
    /\ ~filterConditions.shownTypes["Shower"]
    /\ Mesh("planets", "Earth", 1) \notin scene
    /\ Mesh("planets", "Venus", 1) \in scene
    /\ Mesh("neos", "2010 RF12", 0) \in scene
    /\ Len(showers) = 1
    /\ Mesh("showers", "PER", 0) \notin scene

----------------------------------------------------------------------------
(* Properties of the cached transform matrix *)

\* the element records the driver loop works on, by the place of their solver
\* call in a frame: the planets, the NEOs, the parent bodies of the showers
TrackedParams(pl, ne, sh) ==
    [n \in 1..(Len(pl) + Len(ne) + Len(sh)) |->
        IF n <= Len(pl) THEN pl[n].orbitParams
        ELSE IF n <= Len(pl) + Len(ne) THEN ne[n - Len(pl)].orbitParams
        ELSE sh[n - Len(pl) - Len(ne)].parentParams]
TrackedPositions(pl, ne, sh) ==
    [n \in 1..(Len(pl) + Len(ne) + Len(sh)) |->
        IF n <= Len(pl) THEN pl[n].pos
        ELSE IF n <= Len(pl) + Len(ne) THEN ne[n - Len(pl)].pos
        ELSE sh[n - Len(pl) - Len(ne)].parentBodyMesh]
\* the frame of this step computed the matrix of the n-th record
BuiltInStep(n) == IsFrame /\ n \in lastOp'.built
\* the time the driver loop hands to the solver for the n-th record
QueryTime(n) ==
    IF n > Len(planets) /\ n <= Len(planets) + Len(neos) THEN timeRef'.MJD ELSE timeRef'.JD

\* C19: over any sequence of ticks the driver loop builds the transform matrix
\* of a tracked body's element record at most once: a frame builds it only for
\* a record that has none, the record then holds it, and from then on no step
\* builds or changes it; a later frame that moves the body puts it where the
\* stored matrix sends the body's place on its orbit.
C19_MatrixBuiltOnceAndReused ==
    [][\A n \in 1..(Len(planets) + Len(neos) + Len(showers)) :
        LET before == TrackedParams(planets, neos, showers)[n]
            after == TrackedParams(planets', neos', showers')[n]
            pos == TrackedPositions(planets, neos, showers)[n]
            pos2 == TrackedPositions(planets', neos', showers')[n]
        IN  /\ BuiltInStep(n) =>
                /\ before.transformMatrix.k = "undef"
                /\ after.transformMatrix.k = "array"
            /\ before.transformMatrix.k # "undef" =>
                /\ ~BuiltInStep(n)
                /\ after.transformMatrix = before.transformMatrix
                /\ pos2 # pos =>
                    /\ IsEffectiveFrame
                    /\ pos2 = setPosition(pos,
                                getOrbitPositionSafe(before.a, before.e,
                                    JulianDateToTrueAnomaly(before, QueryTime(n)),
                                    before.transformMatrix))
    ]_vars

\* a second effective frame has moved a planet, a NEO and a parent body whose
\* matrices an earlier frame had built
C19_Witness ==
    /\ lastOp.op = "animate"
    /\ lastOp.built = {}
    /\ timeRef.lastFrameTime = lastOp.time
    /\ lastOp.time > 17
    /\ \E i \in 1..Len(planets) :
        /\ planets[i].orbitParams.transformMatrix.k = "array"
        /\ planets[i].pos # Origin
        /\ lastOp.out[i] = "ok"
    /\ \E i \in 1..Len(neos) :
        /\ neos[i].orbitParams.transformMatrix.k = "array"
        /\ lastOp.out[Len(planets) + i] = "ok"
    /\ \E i \in 1..Len(showers) :
        /\ showers[i].parentParams.transformMatrix.k = "array"
        /\ lastOp.out[Len(planets) + Len(neos) + i] = "ok"

----------------------------------------------------------------------------
(* Properties of the units of the tracked elements *)

\* the orbitParams, as the data file has them, of the entry called name
RawOf(file, name) ==
    file.entries[CHOOSE i \in 1..Len(file.entries) : file.entries[i].name = name].orbitParams
InFile(file, name) == file.ok /\ \E i \in 1..Len(file.entries) : file.entries[i].name = name

\* tracked holds a and e of raw as they are and each of inc, node, peri and ma
\* multiplied by DEG_TO_RAD once
ConvertedOnce(raw, tracked) ==
    /\ tracked.a = raw.a
    /\ tracked.e = raw.e
    /\ tracked.inc = TimesDegToRad(raw.inc)
    /\ tracked.node = TimesDegToRad(raw.node)
    /\ tracked.peri = TimesDegToRad(raw.peri)
    /\ tracked.ma = TimesDegToRad(raw.ma)

\* every planet, NEO and shower parent body of the lists holds the once-converted
\* elements of its record in the data files
AllConvertedOnce(d, pl, ne, sh) ==
    /\ \A i \in 1..Len(pl) :
        /\ InFile(DataSets[d].planets, pl[i].name)
        /\ ConvertedOnce(RawOf(DataSets[d].planets, pl[i].name), pl[i].orbitParams)
    /\ \A i \in 1..Len(ne) :
        /\ InFile(DataSets[d].neos, ne[i].name)
        /\ ConvertedOnce(RawOf(DataSets[d].neos, ne[i].name), ne[i].orbitParams)
    /\ \A i \in 1..Len(sh) :
        sh[i].parentBodyMesh.k = "vec" =>
            /\ InFile(DataSets[d].parents, sh[i].parentBodyName)
            /\ ConvertedOnce(RawOf(DataSets[d].parents, sh[i].parentBodyName),
                             sh[i].parentParams)

SameElements(before, after) ==
    /\ after.a = before.a
    /\ after.e = before.e
    /\ after.inc = before.inc
    /\ after.node = before.node
    /\ after.peri = before.peri
    /\ after.ma = before.ma

\* C20: the angles inc, node, peri and ma of a tracked body are converted from
\* degrees to radians exactly once before the body enters its list: in every
\* state a frame can run in, between the load phases as well, every tracked
\* planet, NEO and shower parent body holds a and e of its record in the data
\* file unchanged and each angle converted once (never the degrees, a mix, or a
\* second conversion), and no step changes a, e or an angle of a body that is
\* already tracked.
C20_AnglesConvertedOnceBeforeTracking ==
    [][/\ AllConvertedOnce(dataset, planets, neos, showers)
       /\ AllConvertedOnce(dataset', planets', neos', showers')
       /\ \A i \in 1..Len(planets) :
            SameElements(planets[i].orbitParams, planets'[i].orbitParams)
       /\ \A i \in 1..Len(neos) :
            SameElements(neos[i].orbitParams, neos'[i].orbitParams)
       /\ \A i \in 1..Len(showers) :
            showers[i].parentBodyMesh.k = "vec" =>
                SameElements(showers[i].parentParams, showers'[i].parentParams)
    ]_vars

\* a frame between the planet and NEO load phases has moved a planet whose node
\* and mean anomaly are a quarter turn, and a later frame a NEO and a parent body
\* with half-turn angles
C20_Witness ==
    /\ lastOp.op = "animate"
    /\ timeRef.lastFrameTime = lastOp.time
    /\ \/ /\ pc = "neos"
          /\ \E i \in 1..Len(planets) :
                /\ planets[i].orbitParams.node = Num(1571)
                /\ planets[i].orbitParams.ma = Num(1571)
                /\ planets[i].orbitParams.transformMatrix.k = "array"
       \/ /\ pc = "done"
          /\ \E i \in 1..Len(neos) :
                /\ neos[i].orbitParams.inc = Num(3142)
                /\ neos[i].orbitParams.transformMatrix.k = "array"
          /\ \E i \in 1..Len(showers) :
                /\ showers[i].parentParams.peri = Num(3142)
                /\ showers[i].parentParams.ma = Num(4712)
                /\ showers[i].parentParams.transformMatrix.k = "array"

----------------------------------------------------------------------------
(* Properties of the speed buttons *)

\* C21: 'forward' sets timeSpeedIndex to 7 (one second per second) and
\* 'backward' sets it to 6 (one second back per second), whatever the index
\* was, and none of 'fastforward', 'fastbackward', 'forward'
\* and 'backward' changes JD or MJD.
C21_ForwardBackwardSetSlowestSpeed ==
    [][/\ IsClick("forward") => /\ timeRef'.timeSpeedIndex = 7
                                /\ TIMESPEEDS[timeRef'.timeSpeedIndex + 1] = 1
       /\ IsClick("backward") => /\ timeRef'.timeSpeedIndex = 6
                                 /\ TIMESPEEDS[timeRef'.timeSpeedIndex + 1] = -1
       /\ \A action \in {"fastforward", "fastbackward", "forward", "backward"} :
            IsClick(action) => /\ timeRef'.JD = timeRef.JD
                               /\ timeRef'.MJD = timeRef.MJD
                               /\ timeRef'.lastFrameTime = timeRef.lastFrameTime
      ]_vars

\* 'backward' was clicked after frames had moved the clock away from the wall
\* time of the mount
C21_Witness ==
    /\ lastOp.op = "timeControl"
    /\ lastOp.action = "backward"
    /\ timeRef.timeSpeedIndex = 6
    /\ timeRef.lastFrameTime > 0
    /\ timeRef.JD # JDOfUnix(DateNow(0))

\* clock value s is earlier than clock value t
TimeBefore(s, t) == s.day < t.day \/ (s.day = t.day /\ s.ms < t.ms)

\* C22: the speed table has no zero entry and is strictly increasing, negative
\* at the indices 0 to 6 and positive at 7 to 13, so that the clock is never
\* paused: every frame that is not rate-limited moves JD and MJD forward when
\* timeSpeedIndex >= 7 and backward when timeSpeedIndex <= 6.
C22_NoPausedSpeed ==
    /\ [](/\ Len(TIMESPEEDS) = 14
          /\ \A i \in 1..14 : TIMESPEEDS[i] # 0
          /\ \A i \in 1..13 : TIMESPEEDS[i] < TIMESPEEDS[i + 1]
          /\ \A i \in 1..7 : TIMESPEEDS[i] < 0
          /\ \A i \in 8..14 : TIMESPEEDS[i] > 0)
    /\ [][(IsEffectiveFrame /\ FrameDeltaMs > 0) =>
            IF timeRef.timeSpeedIndex >= 7
            THEN /\ TimeBefore(timeRef.JD, timeRef'.JD)
                 /\ TimeBefore(timeRef.MJD, timeRef'.MJD)
            ELSE /\ TimeBefore(timeRef'.JD, timeRef.JD)
                 /\ TimeBefore(timeRef'.MJD, timeRef.MJD)
      ]_vars

\* a frame has run at the slowest backward speed and taken the clock to before
\* the wall time of the mount
C22_Witness ==
    /\ lastOp.op = "animate"
    /\ timeRef.lastFrameTime = lastOp.time
    /\ timeRef.timeSpeedIndex = 6
    /\ TimeBefore(timeRef.JD, JDOfUnix(DateNow(0)))

----------------------------------------------------------------------------
(* The backend service with several calls in flight *)

\* an operation of the service is called
BackendCall(i, op) ==
    /\ backendService.calls[i].pc = "idle"
    /\ backendService' = [backendService EXCEPT
                            !.calls[i] = [NoCall EXCEPT !.op = op, !.pc = "fetch",
                                                        !.attempts = 1]]
    /\ UNCHANGED <<viewVars, collisionDetectionService, alertSystem, dataService, lastOp>>

\* the fetch of a call settles: with a response that is ok, or with a status
\* that is not, a network error or a body that is not JSON
BackendFetchSettles(i, ok, statusOk) ==
    /\ backendService.calls[i].pc = "fetch"
    /\ \E r \in {fetchSettled(backendService, backendService.calls[i], ok, statusOk)} :
            backendService' = [r.svc EXCEPT !.calls[i] = r.call]
    /\ UNCHANGED <<viewVars, collisionDetectionService, alertSystem, dataService, lastOp>>

\* the delay before a retry ends and makeRequest is called again
BackendDelayEnds(i) ==
    /\ backendService.calls[i].pc = "delay"
    /\ backendService' = [backendService EXCEPT !.calls[i].pc = "fetch",
                                                !.calls[i].attempts = @ + 1]
    /\ UNCHANGED <<viewVars, collisionDetectionService, alertSystem, dataService, lastOp>>

BackendNext ==
    \/ \E i \in 1..MaxRequests, op \in BackendOps : BackendCall(i, op)
    \/ \E i \in 1..MaxRequests, ok \in BOOLEAN, statusOk \in BOOLEAN :
            BackendFetchSettles(i, ok, statusOk)
    \/ \E i \in 1..MaxRequests : BackendDelayEnds(i)

SpecBackend == Init /\ [][BackendNext]_vars

\* C23: every operation of BackendService that makes a network call returns
\* mock data, and raises no error, when the network call has failed and the
\* retries are used up.
C23_FailedCallReturnsMock ==
    \A i \in 1..MaxRequests :
        (backendService.calls[i].pc = "done" /\ backendService.calls[i].failed) =>
            backendService.calls[i].result = "mock"

\* a call of the service is in flight: awaiting its fetch or a retry delay
InFlight(i) == backendService.calls[i].pc \in {"fetch", "delay"}

\* C29: a makeRequest call makes at most maxRetries + 1 = 4 fetch attempts
\* before it rejects, also with several requests in flight on one instance, and
\* retryCount is 0 whenever no request is in flight.
C29_AtMostFourAttempts ==
    /\ maxRetries + 1 = 4
    /\ \A i \in 1..MaxRequests :
        backendService.calls[i].op \in RequestOps =>
            backendService.calls[i].attempts <= maxRetries + 1
    /\ (\A i \in 1..MaxRequests : ~InFlight(i)) => backendService.retryCount = 0

----------------------------------------------------------------------------
(* Properties of the rate limit *)

\* the clock value that value t stands for when no frame has been counted yet:
\* t less the simulated time of tr.lastFrameTime ms at the current speed
ClockOrigin(tr, t) ==
    AddMs(t, -(LastFrameOrZero(tr) * TIMESPEEDS[tr.timeSpeedIndex + 1]))

\* C24: the rate limit loses no wall-clock time. A rate-limited frame leaves the
\* last-frame timestamp alone, so at a constant speed the clock has advanced,
\* after any sequence of frames, by (timestamp of the last effective frame -
\* timestamp reference of the first, 0) * speed / 1000, however many frames
\* were skipped: until the first click JD and MJD are their values at the mount
\* plus that product, and a frame at any speed, skipped or not, keeps the clock
\* less lastFrameTime * speed where it was.
C24_RateLimitLosesNoTime ==
    /\ []((mounted /\ ctl = 0) =>
            /\ timeRef.JD = AddMs(JDOfUnix(DateNow(0)),
                                  LastFrameOrZero(timeRef) * TIMESPEEDS[10 + 1])
            /\ timeRef.MJD = AddMs(JDToMJD(JDOfUnix(DateNow(0))),
                                   LastFrameOrZero(timeRef) * TIMESPEEDS[10 + 1]))
    /\ [][IsFrame =>
            /\ ClockOrigin(timeRef', timeRef'.JD) = ClockOrigin(timeRef, timeRef.JD)
            /\ ClockOrigin(timeRef', timeRef'.MJD) = ClockOrigin(timeRef, timeRef.MJD)
            /\ ~IsEffectiveFrame => timeRef'.lastFrameTime = timeRef.lastFrameTime
            /\ IsEffectiveFrame => timeRef'.lastFrameTime = lastOp'.time
      ]_vars

\* before any click, the frame at 20 ms is effective after the frame at 10 ms
\* was skipped, and the clock has advanced by 20 ms at the speed of the mount
C24_Witness ==
    /\ lastOp.op = "animate"
    /\ lastOp.time = 20
    /\ timeRef.lastFrameTime = 20
    /\ ctl = 0
    /\ timeRef.JD = AddMs(JDOfUnix(DateNow(0)), 20 * TIMESPEEDS[10 + 1])

----------------------------------------------------------------------------
(* Properties of the initial positions *)

\* the place on its orbit, at true anomaly 0, of a body with elements p, by the
\* transform matrix of p; the origin when that is not a finite position
InitialOnOrbit(p) ==
    With(ensureTransformMatrix(p), LAMBDA q :
    With(getOrbitPosition(q.a, q.e, Num(0), q.transformMatrix), LAMBDA pos :
        IF FiniteVec(pos) THEN pos ELSE Origin))

\* C25: a planet, NEO or shower parent body built at load time is placed at the
\* position on its own orbit for true anomaly 0, computed with the body's
\* transform matrix; it is placed at the origin (0,0,0) only if that position
\* is not finite.
C25_InitialPositionOnOrbit ==
    [][/\ IsLoad("initializePlanets") =>
            \A i \in (Len(planets) + 1)..Len(planets') :
                planets'[i].pos = InitialOnOrbit(planets'[i].orbitParams)
       /\ IsLoad("initializeNeos") =>
            \A i \in (Len(neos) + 1)..Len(neos') :
                neos'[i].pos = InitialOnOrbit(neos'[i].orbitParams)
       /\ IsLoad("initializeShowers") =>
            \A i \in (Len(showers) + 1)..Len(showers') :
                showers'[i].parentBodyMesh.k = "vec" =>
                    showers'[i].parentBodyMesh = InitialOnOrbit(showers'[i].parentParams)
      ]_vars

----------------------------------------------------------------------------
(* The collision-detection events of the page *)

\* the thresholds the page's slider sends, in hundredths
RiskThresholds == {-300, -200, -100}

\* window receives 'collisionDetection:toggle'. The listener was created by the
\* mount effect, which runs once: it calls the handleCollisionDetectionToggle
\* of the first render, whose filterConditions is the initial state.
CollisionToggleEvent(active) ==
    /\ mounted
    /\ ~torn
    /\ filterConditions' = handleCollisionDetectionToggle(FilterConditions, active)
    /\ scene' = updateOrbits(scene, planets, neos, showers,
                             handleCollisionDetectionToggle(FilterConditions, active))
    /\ lastOp' = [op |-> "collisionDetection:toggle", active |-> active]
    /\ UNCHANGED <<timeRef, wall, mounted, rafPending, pc, planets, neos, showers, ctl, dataset,
                   torn, flt>>
    /\ UNCHANGED serviceVars

\* window receives 'collisionDetection:riskThreshold'; the listener reads the
\* filterConditions of the first render as well
RiskThresholdEvent(threshold) ==
    /\ mounted
    /\ ~torn
    /\ filterConditions' = handleRiskThresholdEvent(FilterConditions, threshold)
    /\ scene' = updateOrbits(scene, planets, neos, showers,
                             handleRiskThresholdEvent(FilterConditions, threshold))
    /\ lastOp' = [op |-> "collisionDetection:riskThreshold", threshold |-> threshold]
    /\ UNCHANGED <<timeRef, wall, mounted, rafPending, pc, planets, neos, showers, ctl, dataset,
                   torn, flt>>
    /\ UNCHANGED serviceVars

EventsNext ==
    \/ Mount
    \/ Load
    \/ \E type \in ShownTypeNames : FilterChange(type, ~filterConditions.shownTypes[type])
    \/ \E active \in BOOLEAN : CollisionToggleEvent(active)
    \/ \E threshold \in RiskThresholds : RiskThresholdEvent(threshold)

\* the view with its filter checkboxes and the events of the page
SpecEvents == Init /\ [][EventsNext]_vars

\* C26: a 'collisionDetection:toggle' or 'collisionDetection:riskThreshold'
\* event keeps the filter state of the user: every shownTypes entry stays what
\* the handleFilterChange calls before it made it, the toggle event sets
\* collisionDetectionActive and leaves riskThreshold as it was, and the
\* threshold event sets riskThreshold and leaves collisionDetectionActive as it
\* was.
C26_EventsKeepFilterState ==
    [][/\ lastOp'.op = "collisionDetection:toggle" =>
            /\ filterConditions'.shownTypes = filterConditions.shownTypes
            /\ filterConditions'.riskThreshold = filterConditions.riskThreshold
            /\ filterConditions'.collisionDetectionActive = lastOp'.active
       /\ lastOp'.op = "collisionDetection:riskThreshold" =>
            /\ filterConditions'.shownTypes = filterConditions.shownTypes
            /\ filterConditions'.collisionDetectionActive =
                    filterConditions.collisionDetectionActive
            /\ filterConditions'.riskThreshold = lastOp'.threshold
      ]_vars

----------------------------------------------------------------------------
(* The collision detection service: start, stop and the update timer *)

\* timers set up by one instance, and updates run by them
MaxTimers == 10
MaxUpdates == 3
\* the intervals the service is started with: the default and two others
UpdateIntervals == {60000, 1000, 0}

DetectionOp(op, wasRunning) == [op |-> op, wasRunning |-> wasRunning]

StartDetection(updateInterval) ==
    /\ collisionDetectionService.lastTimer < MaxTimers
    /\ collisionDetectionService' =
            startRealTimeDetection(collisionDetectionService, updateInterval)
    /\ lastOp' = DetectionOp("startRealTimeDetection", collisionDetectionService.isRunning)
    /\ UNCHANGED <<viewVars, backendService, alertSystem, dataService>>

StopDetection ==
    /\ collisionDetectionService' = stopRealTimeDetection(collisionDetectionService)
    /\ lastOp' = DetectionOp("stopRealTimeDetection", collisionDetectionService.isRunning)
    /\ UNCHANGED <<viewVars, backendService, alertSystem, dataService>>

\* an interval timer that has not been cleared fires: performRealTimeUpdate()
TimerFires ==
    /\ collisionDetectionService.updates < MaxUpdates
    /\ collisionDetectionService.timers # {}
    /\ collisionDetectionService' = [collisionDetectionService EXCEPT !.updates = @ + 1]
    /\ lastOp' = DetectionOp("performRealTimeUpdate", collisionDetectionService.isRunning)
    /\ UNCHANGED <<viewVars, backendService, alertSystem, dataService>>

DetectionNext ==
    \/ \E updateInterval \in UpdateIntervals : StartDetection(updateInterval)
    \/ StopDetection
    \/ TimerFires

SpecDetection == Init /\ [][DetectionNext]_vars

\* C27: after any sequence of startRealTimeDetection and stopRealTimeDetection
\* calls at most one update timer is active, and isRunning is true exactly when
\* one is: a start while running sets up no second timer, and a stop, repeated
\* or before any start as well, leaves no timer active.
C27_AtMostOneUpdateTimer ==
    /\ [](/\ Cardinality(collisionDetectionService.timers) <= 1
          /\ collisionDetectionService.isRunning <=> collisionDetectionService.timers # {}
          /\ \A t \in collisionDetectionService.timers :
                t.id = collisionDetectionService.updateInterval)
    /\ [][/\ (lastOp'.op = "startRealTimeDetection" /\ lastOp'.wasRunning) =>
                collisionDetectionService'.timers = collisionDetectionService.timers
          /\ (lastOp'.op = "startRealTimeDetection" /\ ~lastOp'.wasRunning) =>
                Cardinality(collisionDetectionService'.timers) = 1
          /\ lastOp'.op = "stopRealTimeDetection" =>
                /\ collisionDetectionService'.timers = {}
                /\ ~collisionDetectionService'.isRunning
         ]_vars

\* the service was stopped and started again, and another start has been
\* called while it was running
C27_Witness ==
    /\ lastOp.op = "startRealTimeDetection"
    /\ lastOp.wasRunning
    /\ collisionDetectionService.lastTimer = 2
    /\ collisionDetectionService.updates > 0
    /\ Cardinality(collisionDetectionService.timers) = 1

----------------------------------------------------------------------------
(* The alert panel *)

\* alerts created in one run, and high-risk predictions in one risk update
MaxAlerts == 3
MaxHigh == 2

\* the collision service reports a risk assessment
RiskUpdate(high) ==
    /\ alertSystem.created + high <= MaxAlerts
    /\ alertSystem' = processRiskUpdate(alertSystem, high)
    /\ lastOp' = [op |-> "processRiskUpdate", high |-> high]
    /\ UNCHANGED <<viewVars, backendService, collisionDetectionService, dataService>>

\* a click on the bell, and on the close button of the open panel
TogglePanel ==
    /\ alertSystem' = [alertSystem EXCEPT !.isVisible = ~@]
    /\ lastOp' = [op |-> "setIsVisible"]
    /\ UNCHANGED <<viewVars, backendService, collisionDetectionService, dataService>>

ClosePanel ==
    /\ alertSystem.isVisible
    /\ alertSystem' = [alertSystem EXCEPT !.isVisible = FALSE]
    /\ lastOp' = [op |-> "setIsVisible"]
    /\ UNCHANGED <<viewVars, backendService, collisionDetectionService, dataService>>

\* a click on an alert of the open panel
AlertClick(i) ==
    /\ alertSystem.isVisible
    /\ alertSystem' = handleAlertClick(alertSystem, alertSystem.alerts[i])
    /\ lastOp' = [op |-> "handleAlertClick", id |-> alertSystem.alerts[i].id]
    /\ UNCHANGED <<viewVars, backendService, collisionDetectionService, dataService>>

\* a click on the close button of an alert of the list
ClearAlert(i) ==
    /\ alertSystem.isVisible
    /\ alertSystem' = clearAlert(alertSystem, alertSystem.alerts[i].id)
    /\ lastOp' = [op |-> "clearAlert", id |-> alertSystem.alerts[i].id]
    /\ UNCHANGED <<viewVars, backendService, collisionDetectionService, dataService>>

\* the buttons of the panel header; "Mark All Read" is shown while the
\* counter is positive
MarkAllAsRead ==
    /\ alertSystem.isVisible
    /\ alertSystem.unreadCount > 0
    /\ alertSystem' = markAllAsRead(alertSystem)
    /\ lastOp' = [op |-> "markAllAsRead"]
    /\ UNCHANGED <<viewVars, backendService, collisionDetectionService, dataService>>

ClearAllAlerts ==
    /\ alertSystem.isVisible
    /\ alertSystem' = clearAllAlerts(alertSystem)
    /\ lastOp' = [op |-> "clearAllAlerts"]
    /\ UNCHANGED <<viewVars, backendService, collisionDetectionService, dataService>>

AlertsNext ==
    \/ \E high \in 0..MaxHigh : RiskUpdate(high)
    \/ \E i \in 1..Len(alertSystem.alerts) : AlertClick(i)
    \/ \E i \in 1..Len(alertSystem.alerts) : ClearAlert(i)
    \/ MarkAllAsRead
    \/ ClearAllAlerts
    \/ TogglePanel
    \/ ClosePanel

SpecAlerts == Init /\ [][AlertsNext]_vars

\* the alerts of the list that are not read
Unread(a) == {i \in 1..Len(a.alerts) : ~a.alerts[i].isRead}

\* C28: after any sequence of risk updates, markAsRead, markAllAsRead,
\* clearAlert, clearAllAlerts and alert clicks, the badge counter unreadCount
\* is the number of alerts of the list whose isRead flag is false.
C28_BadgeCountsUnreadAlerts ==
    alertSystem.unreadCount = Cardinality(Unread(alertSystem))

----------------------------------------------------------------------------
(* The data service and its cache *)

\* calls of fetchRealTimeNEOData in one run, the end of the clock, and the
\* amounts of time that pass between two steps
MaxFetches == 3
MaxNow == 500000
TickSteps == {100000, 199999}

\* the bodies of the NASA feed: no near_earth_objects, no day, one day, two
\* days, and a day whose entry is no array
Neo(id) == [id |-> id, name |-> "neo"]
RawFeeds ==
    {[k |-> "none", days |-> <<>>], [k |-> "malformed", days |-> <<>>]}
    \cup {[k |-> "feed", days |-> days] :
            days \in {<<>>, <<<<Neo(1)>>>>, <<<<Neo(2)>>>>, <<<<Neo(1)>>, <<Neo(2)>>>>}}
\* the outcomes of fetch(url) and response.json(): the fetch is rejected, the
\* status is not ok, the body is no JSON, the body is a feed
Responses ==
    {[k |-> rk, data |-> [k |-> "none", days |-> <<>>]] : rk \in {"reject", "status", "json"}}
    \cup {[k |-> "data", data |-> raw] : raw \in RawFeeds}
\* the fetch produced a list: processNEOData returned
Successful(response) == response.k = "data" /\ response.data.k # "malformed"

\* fetchRealTimeNEOData() up to its await of fetch(url)
DataFetch ==
    /\ Len(dataService.calls) < MaxFetches
    /\ dataService' = [dataService EXCEPT !.calls =
           Append(@, [pc |-> "fetch", ok |-> FALSE, then |-> "", value |-> <<>>])]
    /\ lastOp' = [op |-> "fetch"]
    /\ UNCHANGED <<viewVars, backendService, collisionDetectionService, alertSystem>>

\* the fetch of call i settles and the call runs to its end
DataFetchSettles(i, response) ==
    /\ dataService.calls[i].pc = "fetch"
    /\ dataService' = With(fetchRealTimeNEOData(dataService, response), LAMBDA r :
           [r.svc EXCEPT
               !.calls[i] = [pc |-> "done", ok |-> Successful(response),
                             then |-> r.then, value |-> r.value],
               !.produced = IF Successful(response)
                            THEN [k |-> "obj", data |-> r.value,
                                  timestamp |-> dataService.now, ttl |-> 0]
                            ELSE @])
    /\ lastOp' = [op |-> "fetchRealTimeNEOData", call |-> i, ok |-> Successful(response)]
    /\ UNCHANGED <<viewVars, backendService, collisionDetectionService, alertSystem>>

\* time passes
DataTick(d) ==
    /\ dataService.now + d <= MaxNow
    /\ dataService' = [dataService EXCEPT !.now = @ + d]
    /\ lastOp' = [op |-> "tick"]
    /\ UNCHANGED <<viewVars, backendService, collisionDetectionService, alertSystem>>

DataNext ==
    \/ DataFetch
    \/ \E i \in 1..Len(dataService.calls), response \in Responses : DataFetchSettles(i, response)
    \/ \E d \in TickSteps : DataTick(d)

SpecData == Init /\ [][DataNext]_vars

\* the list a failed fetch is to return at time now: the one the last
\* successful fetch produced if it is less than 5 minutes old, else none
Fallback(produced, now) ==
    IF produced.k = "obj" /\ now - produced.timestamp < 300000
    THEN produced.data
    ELSE <<>>

\* C30: every call of fetchRealTimeNEOData returns (it never raises); a call
\* whose fetch failed returns the list most recently produced by a
\* successful fetch if that list was cached less than 300000 ms before, and
\* an empty list otherwise.
C30_FailedFetchFallsBackToCache ==
    [][lastOp'.op = "fetchRealTimeNEOData" =>
         With(dataService'.calls[lastOp'.call], LAMBDA call :
             /\ call.then = "return"
             /\ ~call.ok => call.value = Fallback(dataService.produced, dataService.now))]_vars

\* a fetch failed and returned a cached list that is not empty, and another
\* failed and returned the empty list when a cached list had expired
C30_Witness ==
    /\ \E i \in 1..Len(dataService.calls) :
           /\ dataService.calls[i].pc = "done" /\ ~dataService.calls[i].ok
           /\ dataService.calls[i].value # <<>>
    /\ lastOp.op = "fetchRealTimeNEOData"
    /\ ~dataService.calls[lastOp.call].ok
    /\ dataService.calls[lastOp.call].value = <<>>
    /\ dataService.produced.k = "obj" /\ dataService.produced.data # <<>>
    /\ dataService.now - dataService.produced.timestamp = 300000

====
